---- MODULE Spec2Model ----
(***************************************************************************)
(* A model of the Google Sheets writer: the Retry Executor (retry.ts),     *)
(* the lock file protocol and the write flow of GoogleSheetsWriter, the    *)
(* SheetService calls it sequences and the RecordMapper functions it uses. *)
(*                                                                         *)
(* Three specifications share the module:                                  *)
(*   SpecRetry  one call of retryOperation                                 *)
(*   SpecLock   several writer processes competing for one lock file       *)
(*   Spec       one invocation of GoogleSheetsWriter.writeData             *)
(***************************************************************************)
EXTENDS Integers, Sequences, FiniteSets, TLC

(***************************************************************************)
(* Text.  A JavaScript string is a sequence of one-character strings, so   *)
(* that toUpperCase and includes are computed and not assumed.             *)
(***************************************************************************)
LowerToUpper ==
  [c \in {"a","b","c","d","e","f","g","h","i","j","k","l","m","n","o","p","q",
          "r","s","t","u","v","w","x","y","z"} |->
     CASE c = "a" -> "A" [] c = "b" -> "B" [] c = "c" -> "C" [] c = "d" -> "D"
       [] c = "e" -> "E" [] c = "f" -> "F" [] c = "g" -> "G" [] c = "h" -> "H"
       [] c = "i" -> "I" [] c = "j" -> "J" [] c = "k" -> "K" [] c = "l" -> "L"
       [] c = "m" -> "M" [] c = "n" -> "N" [] c = "o" -> "O" [] c = "p" -> "P"
       [] c = "q" -> "Q" [] c = "r" -> "R" [] c = "s" -> "S" [] c = "t" -> "T"
       [] c = "u" -> "U" [] c = "v" -> "V" [] c = "w" -> "W" [] c = "x" -> "X"
       [] c = "y" -> "Y" [] c = "z" -> "Z"]

\* String.prototype.toUpperCase
toUpperCase(s) ==
  [i \in 1..Len(s) |-> IF s[i] \in DOMAIN LowerToUpper THEN LowerToUpper[s[i]] ELSE s[i]]

\* String.prototype.includes
includes(s, pat) ==
  \E i \in 1..(Len(s) - Len(pat) + 1) : SubSeq(s, i, i + Len(pat) - 1) = pat

\* String.prototype.trim (the whitespace of the modelled texts is " ")
RECURSIVE trimStart(_)
trimStart(s) == IF Len(s) > 0 /\ s[1] = " " THEN trimStart(Tail(s)) ELSE s

RECURSIVE trimEnd(_)
trimEnd(s) ==
  IF Len(s) > 0 /\ s[Len(s)] = " " THEN trimEnd(SubSeq(s, 1, Len(s) - 1)) ELSE s

trim(s) == trimEnd(trimStart(s))

Digits == {"0","1","2","3","4","5","6","7","8","9"}

DigitVal(c) ==
  CASE c = "0" -> 0 [] c = "1" -> 1 [] c = "2" -> 2 [] c = "3" -> 3 [] c = "4" -> 4
    [] c = "5" -> 5 [] c = "6" -> 6 [] c = "7" -> 7 [] c = "8" -> 8 [] c = "9" -> 9

DigitChar(n) ==
  CASE n = 0 -> "0" [] n = 1 -> "1" [] n = 2 -> "2" [] n = 3 -> "3" [] n = 4 -> "4"
    [] n = 5 -> "5" [] n = 6 -> "6" [] n = 7 -> "7" [] n = 8 -> "8" [] n = 9 -> "9"

AllDigits(s) == \A i \in 1..Len(s) : s[i] \in Digits

\* the number a run of decimal digits denotes
RECURSIVE ToNumber(_)
ToNumber(s) ==
  IF Len(s) = 0 THEN 0
  ELSE 10 * ToNumber(SubSeq(s, 1, Len(s) - 1)) + DigitVal(s[Len(s)])

\* String(n) of a non-negative integer
RECURSIVE NumberToString(_)
NumberToString(n) ==
  IF n < 10 THEN <<DigitChar(n)>>
  ELSE Append(NumberToString(n \div 10), DigitChar(n % 10))

\* String(n).padStart(2, '0')
padStart2(n) == IF n < 10 THEN <<"0">> \o NumberToString(n) ELSE NumberToString(n)

(***************************************************************************)
(* Retry Executor                                                          *)
(***************************************************************************)
\* retryableErrors of shouldRetry
retryableErrors ==
  { <<"R","A","T","E","_","L","I","M","I","T","_","E","X","C","E","E","D","E","D">>,
    <<"Q","U","O","T","A","_","E","X","C","E","E","D","E","D">>,
    <<"I","N","T","E","R","N","A","L","_","E","R","R","O","R">>,
    <<"B","A","C","K","E","N","D","_","E","R","R","O","R">>,
    <<"S","E","R","V","I","C","E","_","U","N","A","V","A","I","L","A","B","L","E">>,
    <<"T","I","M","E","O","U","T">> }

\* retryableHttpCodes of shouldRetry
retryableHttpCodes == {429, 500, 502, 503, 504}

\* the transport-level codes of shouldRetry's last test
networkCodes == {"ECONNRESET", "ETIMEDOUT", "ENOTFOUND", "EAI_AGAIN"}

\* A field of an error object that holds a number, a string or nothing:
\* kind "num" (value n), "str" (value s) or "none" (undefined).
NoValue == [kind |-> "none", n |-> 0, s |-> ""]
Num(n) == [kind |-> "num", n |-> n, s |-> ""]
Str(s) == [kind |-> "str", n |-> 0, s |-> s]

\* JavaScript truthiness of such a field
Truthy(v) ==
  \/ v.kind = "num" /\ v.n # 0
  \/ v.kind = "str" /\ v.s # ""

\* Array.prototype.includes on the numeric list: a string never equals a number
InHttpCodes(v) == v.kind = "num" /\ v.n \in retryableHttpCodes

InNetworkCodes(v) == v.kind = "str" /\ v.s \in networkCodes

\* shouldRetry(error), the tests in the order of the source: a truthy
\* message returns the vocabulary match before the transport codes are read.
shouldRetry(error) ==
  IF Truthy(error.code) /\ InHttpCodes(error.code) THEN TRUE
  ELSE IF Truthy(error.status) /\ InHttpCodes(error.status) THEN TRUE
  ELSE IF Len(error.message) > 0
    THEN \E retryable \in retryableErrors : includes(toUpperCase(error.message), retryable)
  ELSE IF Truthy(error.code) /\ InNetworkCodes(error.code) THEN TRUE
  ELSE FALSE

\* Math.random() is drawn as rnd / RandDen, rnd in 0..RandDen-1
RandDen == 4

\* Delays are carried in units of 1/DelayScale ms so that the jitter
\* exponentialDelay * 0.25 * (random * 2 - 1) stays an integer.
DelayScale == 4 * RandDen

Min(a, b) == IF a < b THEN a ELSE b
Max(a, b) == IF a > b THEN a ELSE b

\* calculateRetryDelay(attempt, config) with Math.random() = rnd / RandDen;
\* the result is in units of 1/DelayScale ms.
calculateRetryDelay(attempt, config, rnd) ==
  LET exponentialDelay == Min(config.baseDelay * (2 ^ attempt), config.maxDelay)
      \* jitter * DelayScale = exponentialDelay * (2 * rnd - RandDen)
      jitterScaled == exponentialDelay * (2 * rnd - RandDen)
  IN Max(config.baseDelay * DelayScale, exponentialDelay * DelayScale + jitterScaled)

\* variant: no attempt is preceded by a sleep
needsSleep_never(attempt) == FALSE

\* `if (attempt > 0)`: the attempt is preceded by a sleep
needsSleep(attempt) == attempt > 0

\* retryBreaks without the classification: every failure is retried
retryBreaks_ignoresClass(error, attempt, config) ==
  attempt >= config.maxRetries

\* the test that ends the loop of retryOperation after a failed attempt
retryBreaks(error, attempt, config) ==
  ~shouldRetry(error) \/ attempt >= config.maxRetries

\* DEFAULT_RETRY_CONFIG
DEFAULT_RETRY_CONFIG == [maxRetries |-> 3, baseDelay |-> 1000, maxDelay |-> 10000]

(***************************************************************************)
(* Schema & Value Mapper: RecordMapper (mapper.ts, the version with        *)
(* configurable date fields).                                              *)
(*                                                                         *)
(* A JavaScript value is [t, s, n]: t is "undef", "null", "str" (text s),  *)
(* "num" (non-negative integer n), "bool" (n = 1: true) or "json" (an      *)
(* object whose JSON.stringify text is s).  A record is the sequence of    *)
(* its [k, v] entries in key order.                                        *)
(***************************************************************************)
Undefined == [t |-> "undef", s |-> <<>>, n |-> 0]
Null == [t |-> "null", s |-> <<>>, n |-> 0]
Text(s) == [t |-> "str", s |-> s, n |-> 0]
Number(n) == [t |-> "num", s |-> <<>>, n |-> n]
Bool(b) == [t |-> "bool", s |-> <<>>, n |-> IF b THEN 1 ELSE 0]
Json(s) == [t |-> "json", s |-> s, n |-> 0]

Range(seq) == {seq[i] : i \in 1..Len(seq)}

\* record[name]: undefined when the key is absent
Get(record, name) ==
  LET hits == {i \in 1..Len(record) : record[i].k = name}
  IN IF hits = {} THEN Undefined
     ELSE record[CHOOSE i \in hits : \A j \in hits : j <= i].v

\* Object.keys(record)
Keys(record) == [i \in 1..Len(record) |-> record[i].k]

\* the truthiness of a value
JsTruthy(v) ==
  \/ v.t = "str" /\ v.s # <<>>
  \/ v.t = "num" /\ v.n # 0
  \/ v.t = "bool" /\ v.n = 1
  \/ v.t = "json"

\* String(value)
String(v) ==
  CASE v.t = "str" -> v.s
    [] v.t = "num" -> NumberToString(v.n)
    [] v.t = "bool" -> IF v.n = 1 THEN <<"t","r","u","e">> ELSE <<"f","a","l","s","e">>
    [] v.t = "json" -> <<"[","o","b","j","e","c","t"," ","O","b","j","e","c","t","]">>
    [] v.t = "null" -> <<"n","u","l","l">>
    [] OTHER -> <<"u","n","d","e","f","i","n","e","d">>

\* String.prototype.toLowerCase
toLowerCase(s) ==
  [i \in 1..Len(s) |->
     IF \E l \in DOMAIN LowerToUpper : LowerToUpper[l] = s[i]
       THEN CHOOSE l \in DOMAIN LowerToUpper : LowerToUpper[l] = s[i]
       ELSE s[i]]

\* the default of this.dateFields: ['date', 'date_start', 'day', 'date_stop']
dateFields ==
  << <<"d","a","t","e">>, <<"d","a","t","e","_","s","t","a","r","t">>,
     <<"d","a","y">>, <<"d","a","t","e","_","s","t","o","p">> >>

\* the bookkeeping key collectAllFields leaves out
RowNumberKey == <<"_","_","r","o","w","N","u","m","b","e","r">>

\* a Set's insertion: x is added at the end unless it is there already
AddOnce(seq, x) == IF x \in Range(seq) THEN seq ELSE Append(seq, x)

RECURSIVE AddAllOnce(_, _)
AddAllOnce(seq, more) ==
  IF more = <<>> THEN seq ELSE AddAllOnce(AddOnce(seq, Head(more)), Tail(more))

\* collectAllFields(records)
RECURSIVE collectInto(_, _)
collectInto(fields, records) ==
  IF records = <<>> THEN fields
  ELSE collectInto(
         AddAllOnce(fields, SelectSeq(Keys(Head(records)), LAMBDA key : key # RowNumberKey)),
         Tail(records))

collectAllFields(records) == collectInto(<<>>, records)

\* variant: every new field is pushed, present or not
mergeColumns_pushesAll(existingColumns, newFields) == existingColumns \o newFields

\* mergeColumns(existingColumns, newFields): result starts as a copy of
\* existingColumns, each new field not in result is pushed
mergeColumns(existingColumns, newFields) == AddAllOnce(existingColumns, newFields)

\* String.prototype.split(',')
RECURSIVE splitAtCommas(_)
splitAtCommas(s) ==
  LET at == {i \in 1..Len(s) : s[i] = ","}
  IN IF at = {} THEN <<s>>
     ELSE LET first == CHOOSE i \in at : \A j \in at : i <= j
          IN <<SubSeq(s, 1, first - 1)>> \o splitAtCommas(SubSeq(s, first + 1, Len(s)))

\* an optional value: the constructor's argument, the variable DATE_FIELDS
Absent == [defined |-> FALSE, value |-> <<>>]
Present(value) == [defined |-> TRUE, value |-> value]

\* this.dateFields as the constructor sets it:
\* customDateFields || envDateFields || [the default], where envDateFields
\* is process.env.DATE_FIELDS?.split(',').map(f => f.trim()); an array is
\* truthy also when it is empty
constructorDateFields(customDateFields, envValue) ==
  IF customDateFields.defined THEN customDateFields.value
  ELSE IF envValue.defined
    THEN LET parts == splitAtCommas(envValue.value)
         IN [i \in 1..Len(parts) |-> trim(parts[i])]
  ELSE dateFields

\* isDateField(columnName) of a mapper whose this.dateFields is fields
isDateFieldOf(fields, columnName) == toLowerCase(columnName) \in Range(fields)

\* isDateField(columnName) of the writer's mapper, made by new RecordMapper()
\* with DATE_FIELDS unset
isDateField(columnName) == isDateFieldOf(dateFields, columnName)

\* /^\d{4}-\d{2}-\d{2}$/.test(cleaned)
MatchesCanonical(cleaned) ==
  /\ Len(cleaned) = 10
  /\ \A i \in {1, 2, 3, 4, 6, 7, 9, 10} : cleaned[i] \in Digits
  /\ cleaned[5] = "-" /\ cleaned[8] = "-"

\* isNaN(new Date(cleaned + 'T00:00:00.000Z').getTime()) is false: V8's ISO
\* parser takes a month in 1..12 and a day in 1..31 (whatever the month)
CanonicalIsValid(cleaned) ==
  LET month == ToNumber(SubSeq(cleaned, 6, 7))
      day == ToNumber(SubSeq(cleaned, 9, 10))
  IN month \in 1..12 /\ day \in 1..31

IsLeapYear(y) == (y % 4 = 0 /\ y % 100 # 0) \/ y % 400 = 0

DaysInMonth(y, m) ==
  IF m = 2 THEN (IF IsLeapYear(y) THEN 29 ELSE 28)
  ELSE IF m \in {4, 6, 9, 11} THEN 30 ELSE 31

\* the position of the k-th occurrence of the character sep in s (0: none)
SepAt(s, sep, k) ==
  LET at == {i \in 1..Len(s) : s[i] = sep}
  IN IF Cardinality(at) < k THEN 0
     ELSE CHOOSE i \in at : Cardinality({j \in at : j <= i}) = k

InvalidDate == [valid |-> FALSE, y |-> 0, m |-> 0, d |-> 0]

\* the local calendar day of year y, month m, day d as MakeDay gives it: a
\* day beyond the month's end (up to 31) rolls over into the next month
LocalDay(y, m, d) ==
  IF ~(m \in 1..12 /\ d \in 1..31) THEN InvalidDate
  ELSE IF d <= DaysInMonth(y, m) THEN [valid |-> TRUE, y |-> y, m |-> m, d |-> d]
  ELSE IF m = 12 THEN [valid |-> TRUE, y |-> y + 1, m |-> 1, d |-> d - DaysInMonth(y, m)]
  ELSE [valid |-> TRUE, y |-> y, m |-> m + 1, d |-> d - DaysInMonth(y, m)]

\* the ISO date-time form YYYY-MM-DDTHH:mm, which has no offset and is
\* therefore local time
MatchesIsoDateTime(cleaned) ==
  /\ Len(cleaned) = 16
  /\ MatchesCanonical(SubSeq(cleaned, 1, 10))
  /\ cleaned[11] = "T" /\ cleaned[14] = ":"
  /\ \A i \in {12, 13, 15, 16} : cleaned[i] \in Digits
  /\ ToNumber(SubSeq(cleaned, 12, 13)) <= 23
  /\ ToNumber(SubSeq(cleaned, 15, 16)) <= 59

\* V8's legacy parser on three numbers: year, month, day when the first
\* number cannot be a day, else month, day, year; a year of 0..49 is
\* 2000 + year, one of 50..99 is 1900 + year
LegacyYear(year) ==
  IF year <= 49 THEN year + 2000 ELSE IF year <= 99 THEN year + 1900 ELSE year

LegacyDay(n1, n2, n3) ==
  IF n1 \notin 1..31 THEN LocalDay(LegacyYear(n1), n2, n3)
  ELSE LocalDay(LegacyYear(n3), n1, n2)

\* new Date(cleaned) for the texts of the model, as [valid, y, m, d] in the
\* local calendar.  A text of canonical shape reaches this parse only when
\* the ISO parser has refused it, and is refused again.  The ISO date-time
\* form is taken as written.  Three numbers of up to four digits with "/"
\* or with "-" between them go to V8's legacy parser.  Any other text of
\* the model is no date.
ParseDate(cleaned) ==
  IF MatchesCanonical(cleaned) THEN InvalidDate
  ELSE IF MatchesIsoDateTime(cleaned)
    THEN LocalDay(ToNumber(SubSeq(cleaned, 1, 4)), ToNumber(SubSeq(cleaned, 6, 7)),
                  ToNumber(SubSeq(cleaned, 9, 10)))
  ELSE LET sep == IF SepAt(cleaned, "/", 1) # 0 THEN "/" ELSE "-"
           s1 == SepAt(cleaned, sep, 1)
           s2 == SepAt(cleaned, sep, 2)
       IN IF s1 = 0 \/ s2 = 0 \/ SepAt(cleaned, sep, 3) # 0 THEN InvalidDate
          ELSE LET t1 == SubSeq(cleaned, 1, s1 - 1)
                   t2 == SubSeq(cleaned, s1 + 1, s2 - 1)
                   t3 == SubSeq(cleaned, s2 + 1, Len(cleaned))
               IN IF \A x \in {t1, t2, t3} : Len(x) \in 1..4 /\ AllDigits(x)
                    THEN LegacyDay(ToNumber(t1), ToNumber(t2), ToNumber(t3))
                    ELSE InvalidDate

\* normalizeDate(dateString): '' is <<>>
normalizeDate(dateString) ==
  IF dateString = <<>> THEN <<>>
  ELSE LET cleaned == trim(dateString)
       IN IF MatchesCanonical(cleaned) /\ CanonicalIsValid(cleaned) THEN cleaned
          ELSE LET date == ParseDate(cleaned)
               IN IF ~date.valid THEN <<>>
                  ELSE NumberToString(date.y) \o <<"-">> \o padStart2(date.m)
                         \o <<"-">> \o padStart2(date.d)

\* processFieldValue(value, columnName): the cell value handed to the store
processFieldValue(value, columnName) ==
  IF value.t \in {"undef", "null"} \/ (value.t = "str" /\ value.s = <<>>) THEN Text(<<>>)
  ELSE IF isDateField(columnName)
    THEN LET normalized == normalizeDate(String(value))
         IN IF normalized # <<>> THEN Text(normalized) ELSE Text(String(value))
  ELSE IF value.t = "json" THEN Text(value.s)
  ELSE IF value.t = "num" THEN value
  ELSE IF value.t = "bool" THEN value
  ELSE Text(String(value))

\* recordsToRows(records, columns)
recordsToRows(records, columns) ==
  [r \in 1..Len(records) |->
     [c \in 1..Len(columns) |-> processFieldValue(Get(records[r], columns[c]), columns[c])]]

\* getRecordDate(record): the first truthy date field, as a string
RECURSIVE firstDate(_, _)
firstDate(record, fields) ==
  IF fields = <<>> THEN <<>>
  ELSE IF JsTruthy(Get(record, Head(fields))) THEN String(Get(record, Head(fields)))
  ELSE firstDate(record, Tail(fields))

getRecordDate(record) == firstDate(record, dateFields)

\* extractDatesFromRecords(records): the normalized dates of the batch (the
\* order of the returned array is only logged; its users test membership)
extractDatesFromRecords(records) ==
  {normalizeDate(getRecordDate(records[i])) : i \in 1..Len(records)} \ {<<>>}

\* the foundDateFields flag of extractDatesFromRecords
foundDateFields(records) ==
  \E i \in 1..Len(records) : getRecordDate(records[i]) # <<>>

\* `!cell || cell.toString().trim() === ''`
BlankCell(cell) == cell = <<>> \/ trim(cell) = <<>>

\* the cell read for header number index: `row[index] || ''`, then a leading
\* apostrophe is cut
ReadCell(row, index) ==
  LET cellValue == IF index <= Len(row) THEN row[index] ELSE <<>>
  IN IF Len(cellValue) > 0 /\ cellValue[1] = "'" THEN Tail(cellValue) ELSE cellValue

\* variant: the records are numbered as they are pushed, blank rows not counted
rowsToRecords_numbersKeptRows(rows, headers) ==
  LET kept == {i \in 2..Len(rows) : ~(\A c \in 1..Len(rows[i]) : BlankCell(rows[i][c]))}
      nth(k) == CHOOSE i \in kept : Cardinality({j \in kept : j <= i}) = k
  IN [k \in 1..Cardinality(kept) |->
        [data |-> [h \in 1..Len(headers) |->
                     [k |-> headers[h], v |-> Text(ReadCell(rows[nth(k)], h))]],
         rowNumber |-> k + 1]]

\* rowsToRecords(rows, headers): rows is the grid read (its first row the
\* header); position i of the sequence is index i - 1 of the array, so
\* rowNumber = (i - 1) + 1
rowsToRecords(rows, headers) ==
  LET kept == {i \in 2..Len(rows) : ~(\A c \in 1..Len(rows[i]) : BlankCell(rows[i][c]))}
      nth(k) == CHOOSE i \in kept : Cardinality({j \in kept : j <= i}) = k
  IN [k \in 1..Cardinality(kept) |->
        [data |-> [h \in 1..Len(headers) |->
                     [k |-> headers[h], v |-> Text(ReadCell(rows[nth(k)], h))]],
         rowNumber |-> nth(k)]]

\* findDateColumnIndices(columns): 0-based indices, ascending
findDateColumnIndices(columns) ==
  {c - 1 : c \in {c \in 1..Len(columns) : isDateField(columns[c])}}

\* [...numbers].sort((a, b) => b - a)
RECURSIVE InsertDesc(_, _)
InsertDesc(sorted, x) ==
  IF sorted = <<>> THEN <<x>>
  ELSE IF x > Head(sorted) THEN <<x>> \o sorted
  ELSE <<Head(sorted)>> \o InsertDesc(Tail(sorted), x)

RECURSIVE SortDesc(_)
SortDesc(numbers) ==
  IF numbers = <<>> THEN <<>> ELSE InsertDesc(SortDesc(Tail(numbers)), Head(numbers))

\* the loop of groupConsecutiveRanges from index i on, with the locals
\* start and end and the ranges pushed so far
RECURSIVE groupLoop(_, _, _, _, _)
groupLoop(sorted, i, start, end, ranges) ==
  IF i > Len(sorted) THEN Append(ranges, [start |-> end, end |-> start])
  ELSE IF sorted[i] = end - 1 THEN groupLoop(sorted, i + 1, start, sorted[i], ranges)
  ELSE groupLoop(sorted, i + 1, sorted[i], sorted[i],
                 Append(ranges, [start |-> end, end |-> start]))

\* groupConsecutiveRanges(numbers)
groupConsecutiveRanges(numbers) ==
  IF numbers = <<>> THEN <<>>
  ELSE LET sorted == SortDesc(numbers)
       IN groupLoop(sorted, 2, sorted[1], sorted[1], <<>>)

\* variant: the stored date is compared as read, not normalized
findRowsToDelete_rawDate(existingRecords, datesToUpdate) ==
  LET hit(record) ==
        /\ getRecordDate(record.data) \in datesToUpdate
        /\ record.rowNumber # 0
      rows == SelectSeq(existingRecords, hit)
  IN SortDesc([i \in 1..Len(rows) |-> rows[i].rowNumber])

\* variant: the test on the date is dropped, every numbered row is taken
findRowsToDelete_anyDate(existingRecords, datesToUpdate) ==
  LET hit(record) == record.rowNumber # 0
      rows == SelectSeq(existingRecords, hit)
  IN SortDesc([i \in 1..Len(rows) |-> rows[i].rowNumber])

\* findRowsToDelete(existingRecords, datesToUpdate) of GoogleSheetsWriter
findRowsToDelete(existingRecords, datesToUpdate) ==
  LET hit(record) ==
        /\ normalizeDate(getRecordDate(record.data)) \in datesToUpdate
        /\ record.rowNumber # 0
      rows == SelectSeq(existingRecords, hit)
  IN SortDesc([i \in 1..Len(rows) |-> rows[i].rowNumber])

(***************************************************************************)
(* The remote store, as the SheetService requests use it.  grid holds the  *)
(* display text of the target sheet's cells, rows first, in the form       *)
(* values.get returns it: no trailing empty cell in a row, no trailing     *)
(* empty row; rowCount is gridProperties.rowCount.                         *)
(***************************************************************************)
RECURSIVE dropTrailingEmpty(_)
dropTrailingEmpty(seq) ==
  IF Len(seq) > 0 /\ seq[Len(seq)] = <<>>
    THEN dropTrailingEmpty(SubSeq(seq, 1, Len(seq) - 1))
    ELSE seq

\* the grid as values.get returns it
Normalize(g) == dropTrailingEmpty([r \in 1..Len(g) |-> dropTrailingEmpty(g[r])])

\* the text of cell (r, c), empty outside the stored rows and cells
CellAt(g, r, c) == IF r <= Len(g) /\ c <= Len(g[r]) THEN g[r][c] ELSE <<>>

\* the text the store shows for a written value (USER_ENTERED or RAW)
Display(v) ==
  CASE v.t = "num" -> NumberToString(v.n)
    [] v.t = "bool" -> IF v.n = 1 THEN <<"T","R","U","E">> ELSE <<"F","A","L","S","E">>
    [] OTHER -> v.s

\* values.update at row r0, column c0 with the rows of data (display texts)
WriteBlock(g, r0, c0, data) ==
  LET nRows == Max(Len(g), r0 + Len(data) - 1)
      width(r) ==
        IF r >= r0 /\ r < r0 + Len(data)
          THEN Max(IF r <= Len(g) THEN Len(g[r]) ELSE 0, c0 + Len(data[r - r0 + 1]) - 1)
          ELSE Len(g[r])
      inBlock(r, c) ==
        /\ r >= r0 /\ r < r0 + Len(data)
        /\ c >= c0 /\ c < c0 + Len(data[r - r0 + 1])
  IN Normalize([r \in 1..nRows |->
       [c \in 1..width(r) |->
          IF inBlock(r, c) THEN data[r - r0 + 1][c - c0 + 1] ELSE CellAt(g, r, c)]])

\* values.clear of the columns A..columnCount, every row
ClearColumns(g, columnCount) ==
  Normalize([r \in 1..Len(g) |->
    [c \in 1..Len(g[r]) |-> IF c <= columnCount THEN <<>> ELSE g[r][c]]])

\* deleteDimension ROWS [startIndex, endIndex) is accepted when the range
\* lies in the sheet and leaves it a row
DeleteAccepted(count, startIndex, endIndex) ==
  /\ 0 <= startIndex /\ startIndex < endIndex /\ endIndex <= count
  /\ endIndex - startIndex < count

\* the rows left by deleteDimension ROWS [startIndex, endIndex): 0-based,
\* end exclusive, the rows below move up
DeleteDimension(g, startIndex, endIndex) ==
  LET left == {r \in 1..Len(g) : ~(r - 1 >= startIndex /\ r - 1 < endIndex)}
      nth(k) == CHOOSE r \in left : Cardinality({q \in left : q <= r}) = k
  IN Normalize([k \in 1..Cardinality(left) |-> g[nth(k)]])

\* values.append with INSERT_ROWS: the rows go below the last row of data
AppendValues(g, data) == Normalize(g \o data)

\* the display texts of a block of written values
DisplayRows(rows) ==
  [r \in 1..Len(rows) |-> [c \in 1..Len(rows[r]) |-> Display(rows[r][c])]]

(***************************************************************************)
(* State                                                                   *)
(***************************************************************************)
VARIABLES
  \* --- one call of a RecordMapper method (SpecMapper)
  mpc,          \* "off" | "call" | "done"
  mfun,         \* the method called
  margs,        \* its arguments, in order
  mresult,      \* the value it returned (<<>> until it has)
  \* --- one call of retryOperation (SpecRetry)
  rpc,          \* "off" | "try" | "sleep" | "returned" | "thrown"
  rconfig,      \* the RetryConfig of the call
  rattempt,     \* the loop variable attempt
  rops,         \* invocations of operation() so far
  rsleeps,      \* sleeps so far
  rdelay,       \* the delay of the last sleep, in 1/DelayScale ms (-1: none yet)
  rfails,       \* the errors of the failed attempts, in order
  rlastError,   \* the variable lastError (NoError: undefined)
  rresult,      \* the value returned: the number of the attempt that produced it (0: none)
  rthrown,      \* the Error thrown to the caller (NoThrown: none)
  \* --- the writer processes and the lock file (SpecLock, Spec)
  pc,           \* pc[p]: where writer p is in writeData
  lockFile,     \* the lock file: [exists, mtime, pid]
  now,          \* Date.now(), in ms
  lockAge,      \* lockAge[p]: the local lockAge of acquireLock
  acquiredAt,   \* acquiredAt[p]: mtime of the lock p wrote (-1: none)
  released,     \* released[p]: p has run releaseLock
  outcome,      \* outcome[p]: "none" | "stats" | "contention" | "error"
  \* --- one invocation of writeData and the store (Spec)
  dryRun,       \* this.dryRun
  fullRefresh,  \* this.fullRefresh
  grid,         \* the cells of the target sheet
  rowCount,     \* gridProperties.rowCount of the target sheet
  grid0,        \* the cells of the target sheet when writeData was called
  sheetZero,    \* the sheet whose id is 0: "target" | "other" | "none" ("unknown" until read)
  otherDeleted, \* rows deleted from a sheet other than the target
  batch,        \* newRecords
  existingData, \* the snapshot getAllData returned (<<>>: none or empty)
  ranges,       \* deleteRows: the sorted ranges not yet deleted
  sheetRef,     \* the sheet the local sheetId denotes: "target" | "other" | "none"
  inflight,     \* the requests sent to the store and not yet answered
  attempt,      \* the attempt counter of the retryOperation in progress
  faults,       \* failures injected so far
  delResults,   \* deleteRows: per range, "ok" or "failed", in the order processed
  deletedCount, \* the local deletedCount
  calls,        \* the requests sent to the store, in order
  stats         \* the WriteStats returned (NoStats: none)

rvars == <<rpc, rconfig, rattempt, rops, rsleeps, rdelay, rfails, rlastError, rresult,
          rthrown>>
lvars == <<pc, lockFile, now, lockAge, acquiredAt, released, outcome>>
flagvars == <<dryRun, fullRefresh, grid0>>
storevars == <<grid, rowCount, sheetZero, otherDeleted>>
runvars == <<batch, existingData, ranges, sheetRef, inflight, attempt, delResults,
             deletedCount, stats>>
logvars == <<calls, faults>>
wvars == <<flagvars, storevars, runvars, logvars>>
mvars == <<mpc, mfun, margs, mresult>>
vars == <<mvars, rvars, lvars, wvars>>

NoStats ==
  [totalRecords |-> -1, newRecords |-> -1, updatedRecords |-> -1, deletedRecords |-> -1,
   newColumns |-> <<>>]

\* the mapper's variables while no call of a method is modelled
MapperIdle == mpc = "off" /\ mfun = "" /\ margs = <<>> /\ mresult = <<>>

\* the writer's variables while no invocation of writeData is modelled
WriterIdle ==
  /\ dryRun = FALSE /\ fullRefresh = FALSE /\ grid = <<>> /\ rowCount = 1 /\ grid0 = <<>>
  /\ sheetZero = "unknown" /\ otherDeleted = 0 /\ batch = <<>> /\ existingData = <<>>
  /\ ranges = <<>> /\ sheetRef = "target" /\ inflight = <<>> /\ attempt = 0 /\ faults = 0
  /\ delResults = <<>> /\ deletedCount = 0 /\ calls = <<>> /\ stats = NoStats

(***************************************************************************)
(* SpecRetry: retryOperation(operation, config)                            *)
(***************************************************************************)
\* the largest maxRetries of a drawn configuration
MaxRetriesBound == 3

RetryConfigs ==
  {DEFAULT_RETRY_CONFIG} \cup
  [maxRetries : 0..MaxRetriesBound, baseDelay : {500, 1000}, maxDelay : {1500, 10000}]

NoError == [code |-> NoValue, status |-> NoValue, message |-> <<>>]

\* the errors operation() may reject with
ErrRateLimit == [code |-> Num(429), status |-> NoValue, message |-> <<>>]
ErrUnavailable ==
  [code |-> NoValue, status |-> Num(503),
   message |-> <<"S","e","r","v","i","c","e"," ","U","n","a","v","a","i","l","a","b","l","e">>]
ErrTimeoutMsg == [code |-> NoValue, status |-> NoValue, message |-> <<"t","i","m","e","o","u","t">>]
ErrConnReset ==
  [code |-> Str("ECONNRESET"), status |-> NoValue,
   message |-> <<"r","e","a","d"," ","E","C","O","N","N","R","E","S","E","T">>]
ErrConnResetBare == [code |-> Str("ECONNRESET"), status |-> NoValue, message |-> <<>>]
ErrBadRequest ==
  [code |-> Num(400), status |-> Num(400),
   message |-> <<"B","a","d"," ","R","e","q","u","e","s","t">>]

OperationErrors ==
  {ErrRateLimit, ErrUnavailable, ErrTimeoutMsg, ErrConnReset, ErrConnResetBare, ErrBadRequest}

\* no Error thrown; an Error has a message and, when one was given, a cause
NoThrown == [message |-> <<>>, cause |-> NoError]

\* new Error(`Operation failed after ${config.maxRetries + 1} attempts. Last
\* error: ${lastError.message}`), lastError being the last of fails: no
\* cause is given; a message that is absent (<<>>) reads "undefined"
thrownError(config, fails) ==
  [message |-> <<"O","p","e","r","a","t","i","o","n"," ","f","a","i","l","e","d"," ",
                 "a","f","t","e","r"," ">> \o NumberToString(config.maxRetries + 1)
                 \o <<" ","a","t","t","e","m","p","t","s","."," ",
                      "L","a","s","t"," ","e","r","r","o","r",":"," ">>
                 \o (IF fails[Len(fails)].message = <<>>
                       THEN <<"u","n","d","e","f","i","n","e","d">>
                       ELSE fails[Len(fails)].message),
   cause |-> NoError]

RetryIdle ==
  /\ rpc = "off" /\ rconfig = DEFAULT_RETRY_CONFIG /\ rattempt = 0 /\ rops = 0
  /\ rsleeps = 0 /\ rdelay = -1 /\ rfails = <<>> /\ rlastError = NoError
  /\ rresult = 0 /\ rthrown = NoThrown

RetryInit ==
  /\ rpc = "try" /\ rconfig \in RetryConfigs /\ rattempt = 0 /\ rops = 0
  /\ rsleeps = 0 /\ rdelay = -1 /\ rfails = <<>> /\ rlastError = NoError
  /\ rresult = 0 /\ rthrown = NoThrown

\* `return await operation()`: the attempt succeeds
RetryAttemptOk ==
  /\ rpc = "try"
  /\ rops' = rops + 1
  /\ rresult' = rops + 1
  /\ rpc' = "returned"
  /\ UNCHANGED <<rconfig, rattempt, rsleeps, rdelay, rfails, rlastError, rthrown, mvars, lvars,
                 wvars>>

\* the attempt rejects with error: the catch block
RetryAttemptFails ==
  /\ rpc = "try"
  /\ \E error \in OperationErrors :
       /\ rops' = rops + 1
       /\ rlastError' = error
       /\ rfails' = Append(rfails, error)
       /\ IF retryBreaks(error, rattempt, rconfig)
            THEN \* break, then the throw after the loop
                 /\ rpc' = "thrown"
                 /\ rattempt' = rattempt
                 /\ rthrown' = thrownError(rconfig, Append(rfails, error))
            ELSE \* next iteration: attempt++ and, as attempt > 0, the sleep
                 /\ rattempt' = rattempt + 1
                 /\ rpc' = IF rattempt + 1 > rconfig.maxRetries THEN "thrown"
                           ELSE IF needsSleep(rattempt + 1) THEN "sleep" ELSE "try"
                 /\ rthrown' = IF rattempt + 1 <= rconfig.maxRetries THEN rthrown
                               ELSE thrownError(rconfig, Append(rfails, error))
  /\ UNCHANGED <<rconfig, rsleeps, rdelay, rresult, mvars, lvars, wvars>>

\* `if (attempt > 0) { delay = calculateRetryDelay(attempt - 1, config); await sleep(delay) }`
RetrySleep ==
  /\ rpc = "sleep"
  /\ \E rnd \in 0..(RandDen - 1) :
       rdelay' = calculateRetryDelay(rattempt - 1, rconfig, rnd)
  /\ rsleeps' = rsleeps + 1
  /\ rpc' = "try"
  /\ UNCHANGED <<rconfig, rattempt, rops, rfails, rlastError, rresult, rthrown, mvars, lvars,
                 wvars>>

RetryNext == RetryAttemptOk \/ RetryAttemptFails \/ RetrySleep

(***************************************************************************)
(* Lock Manager: acquireLock and releaseLock of GoogleSheetsWriter.        *)
(* Every await of the source is a step of its own, so that the steps of    *)
(* several processes interleave.                                           *)
(***************************************************************************)
\* `30 * 60 * 1000`: a lock older than this is stale
StaleLockMs == 30 * 60 * 1000

\* variant: a lock is stale from the threshold on
IsStale_fromThreshold(age) == age >= StaleLockMs

\* `lockAge > 30 * 60 * 1000`
IsStale(age) == age > StaleLockMs

NoLockFile == [exists |-> FALSE, mtime |-> 0, pid |-> 0]

\* await fs.access(this.lockFile): resolves when the file exists, rejects
\* with ENOENT (caught: fall through to the creation) when it does not
LockAccess(p) ==
  /\ pc[p] = "acquire"
  /\ pc' = [pc EXCEPT ![p] = IF lockFile.exists THEN "lock_stat" ELSE "lock_write"]
  /\ UNCHANGED <<lockFile, now, lockAge, acquiredAt, released, outcome, mvars, rvars, wvars>>

\* await fs.stat(this.lockFile); lockAge = Date.now() - mtime; the test of
\* the age: a stale lock goes on to unlink, a younger one throws the
\* "Another writer process is running" error out of writeData.
LockStat(p) ==
  /\ pc[p] = "lock_stat"
  /\ IF ~lockFile.exists
       THEN \* fs.stat rejects with ENOENT, which the catch swallows
            /\ pc' = [pc EXCEPT ![p] = "lock_write"]
            /\ UNCHANGED <<lockAge, outcome>>
       ELSE /\ lockAge' = [lockAge EXCEPT ![p] = now - lockFile.mtime]
            /\ IF IsStale(now - lockFile.mtime)
                 THEN /\ pc' = [pc EXCEPT ![p] = "lock_unlink"]
                      /\ UNCHANGED outcome
                 ELSE /\ pc' = [pc EXCEPT ![p] = "done"]
                      /\ outcome' = [outcome EXCEPT ![p] = "contention"]
  /\ UNCHANGED <<lockFile, now, acquiredAt, released, mvars, rvars, wvars>>

\* await fs.unlink(this.lockFile) of the stale lock (ENOENT is swallowed)
LockUnlink(p) ==
  /\ pc[p] = "lock_unlink"
  /\ lockFile' = NoLockFile
  /\ pc' = [pc EXCEPT ![p] = "lock_write"]
  /\ UNCHANGED <<now, lockAge, acquiredAt, released, outcome, mvars, rvars, wvars>>

\* await fs.writeFile(this.lockFile, lockData): creates or overwrites; the
\* block that declared lockAge is over
LockWrite(p) ==
  /\ pc[p] = "lock_write"
  /\ lockFile' = [exists |-> TRUE, mtime |-> now, pid |-> p]
  /\ acquiredAt' = [acquiredAt EXCEPT ![p] = now]
  /\ lockAge' = [lockAge EXCEPT ![p] = 0]
  /\ pc' = [pc EXCEPT ![p] = "load"]
  /\ UNCHANGED <<now, released, outcome, mvars, rvars, wvars>>

\* releaseLock in the finally block: await fs.unlink(this.lockFile); a
\* missing file is logged, not thrown.  The outcome of the try block then
\* reaches the caller.
ReleaseLock(p) ==
  /\ pc[p] = "release"
  /\ lockFile' = NoLockFile
  /\ released' = [released EXCEPT ![p] = TRUE]
  /\ pc' = [pc EXCEPT ![p] = "done"]
  /\ UNCHANGED <<now, lockAge, acquiredAt, outcome, mvars, rvars, wvars>>

(***************************************************************************)
(* SpecLock: NumWriters non-dry-run invocations on the same sheet.  The    *)
(* body of the try block is one step that ends with statistics or with an  *)
(* error; time passes in ticks of TickMs.                                  *)
(***************************************************************************)
NumWriters == 2
Writers == 1..NumWriters

\* the clock advances by ten minutes, at most MaxTicks times
TickMs == 10 * 60 * 1000
MaxTicks == 4

LockInit ==
  /\ pc = [p \in Writers |-> "acquire"]
  /\ lockFile = NoLockFile
  /\ now = 0
  /\ lockAge = [p \in Writers |-> 0]
  /\ acquiredAt = [p \in Writers |-> -1]
  /\ released = [p \in Writers |-> FALSE]
  /\ outcome = [p \in Writers |-> "none"]

\* the try block of writeData, from loadData to the return or the throw
TryBlock(p) ==
  /\ pc[p] = "load"
  /\ \E o \in {"stats", "error"} : outcome' = [outcome EXCEPT ![p] = o]
  /\ pc' = [pc EXCEPT ![p] = "release"]
  /\ UNCHANGED <<lockFile, now, lockAge, acquiredAt, released, mvars, rvars, wvars>>

Tick ==
  /\ now < MaxTicks * TickMs
  /\ now' = now + TickMs
  /\ UNCHANGED <<pc, lockFile, lockAge, acquiredAt, released, outcome, mvars, rvars, wvars>>

LockNext ==
  \/ \E p \in Writers :
       \/ LockAccess(p)
       \/ LockStat(p)
       \/ LockUnlink(p)
       \/ LockWrite(p)
       \/ TryBlock(p)
       \/ ReleaseLock(p)
  \/ Tick

LockIdle ==
  /\ pc = [p \in {1} |-> "off"]
  /\ lockFile = NoLockFile
  /\ now = 0
  /\ lockAge = [p \in {1} |-> 0]
  /\ acquiredAt = [p \in {1} |-> -1]
  /\ released = [p \in {1} |-> FALSE]
  /\ outcome = [p \in {1} |-> "none"]

InitRetry == RetryInit /\ LockIdle /\ WriterIdle /\ MapperIdle

SpecRetry == InitRetry /\ [][RetryNext]_vars

\* every attempt settles and every sleep timer fires
SpecRetryFair == InitRetry /\ [][RetryNext]_vars /\ WF_vars(RetryNext)

InitLock == LockInit /\ RetryIdle /\ WriterIdle /\ MapperIdle

SpecLock == InitLock /\ [][LockNext]_vars

(***************************************************************************)
(* Spec: one invocation of writeData (writer Self) against the store.      *)
(***************************************************************************)
Self == 1

\* what performIncrementalUpdate computes from the snapshot and the batch
ExistingRecords(data) == rowsToRecords(data, data[1])
RowsToDelete(data, records) ==
  findRowsToDelete(ExistingRecords(data), extractDatesFromRecords(records))
FinalColumns(data, records) == mergeColumns(data[1], collectAllFields(records))
\* variant: every field of the batch is taken as new
NewColumns_everyField(data, records) == collectAllFields(records)

NewColumns(data, records) ==
  SelectSeq(FinalColumns(data, records), LAMBDA col : col \notin Range(data[1]))

\* variant: the row of the header is not counted
RequiredRows_withoutHeader(data, records, deleted) ==
  (Len(ExistingRecords(data)) - deleted) + Len(records)

RequiredRows(data, records, deleted) ==
  (Len(ExistingRecords(data)) - deleted) + Len(records) + 1

\* the WriteStats of performIncrementalUpdate
IncrementalStats(data, records, deleted) ==
  [totalRecords |-> (Len(ExistingRecords(data)) - deleted) + Len(records),
   newRecords |-> Len(records),
   updatedRecords |-> 0,
   deletedRecords |-> deleted,
   newColumns |-> NewColumns(data, records)]

\* allData of performFullRefresh: [allColumns, ...dataRows]
AllData(records) ==
  LET allColumns == collectAllFields(records)
  IN <<[c \in 1..Len(allColumns) |-> Text(allColumns[c])]>>
       \o recordsToRows(records, allColumns)

\* variant: totalRecords counts the rows of allData, the header included
FullRefreshStats_countsHeader(records) ==
  [totalRecords |-> Len(records) + 1,
   newRecords |-> Len(records),
   updatedRecords |-> 0,
   deletedRecords |-> 0,
   newColumns |-> collectAllFields(records)]

\* the WriteStats of performFullRefresh
FullRefreshStats(records) ==
  [totalRecords |-> Len(records),
   newRecords |-> Len(records),
   updatedRecords |-> 0,
   deletedRecords |-> 0,
   newColumns |-> collectAllFields(records)]

\* [...rowRanges].sort((a, b) => b.start - a.start)
RECURSIVE InsertByStartDesc(_, _)
InsertByStartDesc(sorted, x) ==
  IF sorted = <<>> THEN <<x>>
  ELSE IF x.start > Head(sorted).start THEN <<x>> \o sorted
  ELSE <<Head(sorted)>> \o InsertByStartDesc(Tail(sorted), x)

\* variant: the ranges in ascending order of start
RECURSIVE sortedRanges_ascending(_)
sortedRanges_ascending(rowRanges) ==
  IF rowRanges = <<>> THEN <<>>
  ELSE sortedRanges_ascending(Tail(rowRanges)) \o <<Head(rowRanges)>>

RECURSIVE sortedRanges(_)
sortedRanges(rowRanges) ==
  IF rowRanges = <<>> THEN <<>>
  ELSE InsertByStartDesc(sortedRanges(Tail(rowRanges)), Head(rowRanges))

\* rowsToAdd of the call addRowsToSheet(5000)
GrowthRows == 5000

\* a request as the store receives it
Call(op, sheet, a, b) == [op |-> op, sheet |-> sheet, a |-> a, b |-> b]

\* the requests that change the spreadsheet
MutatingOps ==
  {"values.clear", "values.update", "values.append", "deleteDimension",
   "appendDimension", "repeatCell"}

(***************************************************************************)
(* How one attempt of a request ends: "ok"; "transient" (503, no effect);  *)
(* "permanent" (400, no effect); "lost" (the request took effect, the      *)
(* response was a 503).  At most MaxFaults attempts of a run fail by       *)
(* injection; a request the store has to reject fails with a 400.          *)
(***************************************************************************)
MaxFaults == 1

Outcomes(mutating) ==
  {"ok"} \cup (IF faults < MaxFaults
                 THEN {"transient", "permanent"} \cup (IF mutating THEN {"lost"} ELSE {})
                 ELSE {})

ErrorOf(o) == IF o = "permanent" THEN ErrBadRequest ELSE ErrUnavailable

\* retryOperation with the default configuration gives up on this failure
GivesUp(o) == retryBreaks(ErrorOf(o), attempt, DEFAULT_RETRY_CONFIG)

\* the writer's variables as a record, and the step to such a record
Cur ==
  [pc |-> pc[Self], outcome |-> outcome[Self], grid |-> grid, rowCount |-> rowCount,
   sheetZero |-> sheetZero, otherDeleted |-> otherDeleted, batch |-> batch,
   existingData |-> existingData, ranges |-> ranges, sheetRef |-> sheetRef,
   inflight |-> inflight, attempt |-> attempt, faults |-> faults,
   delResults |-> delResults, deletedCount |-> deletedCount, calls |-> calls,
   stats |-> stats]

Set(c) ==
  /\ pc' = [pc EXCEPT ![Self] = c.pc]
  /\ outcome' = [outcome EXCEPT ![Self] = c.outcome]
  /\ grid' = c.grid /\ rowCount' = c.rowCount
  /\ sheetZero' = c.sheetZero /\ otherDeleted' = c.otherDeleted
  /\ batch' = c.batch /\ existingData' = c.existingData
  /\ ranges' = c.ranges /\ sheetRef' = c.sheetRef
  /\ inflight' = c.inflight /\ attempt' = c.attempt /\ faults' = c.faults
  /\ delResults' = c.delResults /\ deletedCount' = c.deletedCount
  /\ calls' = c.calls /\ stats' = c.stats
  /\ UNCHANGED <<mvars, rvars, lockFile, now, lockAge, acquiredAt, released, flagvars>>

\* the attempt is logged and, when it failed by injection, counted
Sent(c, o, requests) ==
  [c EXCEPT !.calls = @ \o requests, !.faults = @ + (IF o = "ok" THEN 0 ELSE 1)]

\* the try block of writeData ends: the finally block follows
\* variant: the lock is released only when the try block returned
finallyBlock_onlyOnReturn(result) ==
  IF dryRun \/ result = "error" THEN "done" ELSE "release"

\* the finally block of writeData: releaseLock unless this.dryRun
finallyBlock(result) == IF dryRun THEN "done" ELSE "release"
Throw(c) == [c EXCEPT !.pc = finallyBlock("error"), !.outcome = "error", !.attempt = 0]
Return(c, st) ==
  [c EXCEPT !.pc = finallyBlock("stats"), !.outcome = "stats", !.stats = st,
            !.attempt = 0]
Again(c) == [c EXCEPT !.attempt = @ + 1]

(***************************************************************************)
(* The inputs of Spec: the stored grid, the batch, the flags and the lock  *)
(* file another process may have left.                                     *)
(***************************************************************************)
FieldDate == <<"d","a","t","e">>
FieldA == <<"a">>
FieldB == <<"b">>
Day1 == <<"2","0","2","4","-","0","1","-","0","1">>
Day2 == <<"2","0","2","4","-","0","1","-","0","2">>
Day2Slashed == <<"1","/","2","/","2","0","2","4">>

\* the header row and the kinds of row below it: a row of Day1, a row of
\* Day2 shown as 1/2/2024, a blank row; and a row with no date, as the
\* append of a record without a date field leaves it
HeaderRow == <<FieldDate, FieldA>>
StoredRowKinds == {<<Day1, <<"x">>>>, <<Day2Slashed, <<"y">>>>, <<>>}
UndatedRow == <<<<>>, <<"z">>>>

MaxRows == 3

\* the stores the run may find: no grid at all, the header and up to
\* MaxRows rows, or the header, at most one such row and a row without a
\* date
InitialGrids ==
  {<<>>} \cup
  {g \in {<<HeaderRow>> \o rows : rows \in UNION {[1..n -> StoredRowKinds] : n \in 0..MaxRows}} :
     Normalize(g) = g} \cup
  {<<HeaderRow>> \o rows \o <<UndatedRow>> :
     rows \in {<<>>} \cup {<<row>> : row \in StoredRowKinds}}

\* the batches loadData may return
Batches ==
  { << <<[k |-> FieldDate, v |-> Text(Day1)], [k |-> FieldA, v |-> Text(<<"n">>)]>> >>,
    << <<[k |-> FieldDate, v |-> Text(Day2)], [k |-> FieldA, v |-> Number(7)],
         [k |-> FieldB, v |-> Text(<<"m">>)]>> >>,
    << <<[k |-> FieldDate, v |-> Text(Day1)], [k |-> FieldA, v |-> Text(<<"n">>)]>>,
       <<[k |-> FieldDate, v |-> Text(Day2Slashed)], [k |-> FieldA, v |-> Text(<<"o">>)]>> >>,
    << <<[k |-> FieldA, v |-> Text(<<"n">>)]>> >> }

\* the clock of the run, and the lock files found: none, or another
\* process's lock 10, 30 or 40 minutes old
NowMs == 6 * TickMs
OtherPid == 2
InitialLocks ==
  {NoLockFile} \cup
  {[exists |-> TRUE, mtime |-> NowMs - age * TickMs, pid |-> OtherPid] : age \in {1, 3, 4}}

\* writeData up to the try block: the lock is taken unless this.dryRun
Begin ==
  /\ pc[Self] = "start"
  /\ Set([Cur EXCEPT !.pc = IF dryRun THEN "load" ELSE "acquire"])

\* variant: performFullRefresh writes in a dry run too
EnterFullRefresh_alwaysWrites(c, records) == [c EXCEPT !.pc = "full_clear", !.attempt = 0]

\* performFullRefresh(records) up to its first await: in a dry run it
\* returns its statistics at once, otherwise replaceAllData starts
EnterFullRefresh(c, records) ==
  IF dryRun THEN Return(c, FullRefreshStats(records))
  ELSE [c EXCEPT !.pc = "full_clear", !.attempt = 0]

\* the end of both update paths: the statistics of the path taken
ReturnStats(c) ==
  IF fullRefresh \/ c.existingData = <<>>
    THEN Return(c, FullRefreshStats(c.batch))
    ELSE Return(c, IncrementalStats(c.existingData, c.batch, c.deletedCount))

\* variant: the test `newRecords.length === 0` is left out
LoadData_emptyGoesOn ==
  /\ pc[Self] = "load"
  /\ \E loaded \in BOOLEAN,
        records \in IF batch = <<>> THEN Batches \cup {<<>>} ELSE {batch} :
       LET c == [Cur EXCEPT !.batch = IF loaded THEN records ELSE <<>>]
       IN IF ~loaded THEN Set(Throw(c))
          ELSE IF fullRefresh THEN Set(EnterFullRefresh(c, records))
          ELSE Set([c EXCEPT !.pc = "incr_read", !.attempt = 0])

\* loadData and the tests after it: a read or parse failure and an empty
\* array both throw; otherwise the update path is chosen.  When the
\* records of the file at dataPath are known already, they are what a
\* successful load returns.
LoadData ==
  /\ pc[Self] = "load"
  /\ \E loaded \in BOOLEAN,
        records \in IF batch = <<>> THEN Batches \cup {<<>>} ELSE {batch} :
       LET c == [Cur EXCEPT !.batch = IF loaded THEN records ELSE <<>>]
       IN IF ~loaded \/ records = <<>> THEN Set(Throw(c))
          ELSE IF fullRefresh THEN Set(EnterFullRefresh(c, records))
          ELSE Set([c EXCEPT !.pc = "incr_read", !.attempt = 0])

\* replaceAllData, first request of an attempt: values.clear of A:lastColumn
ClearValues ==
  /\ pc[Self] = "full_clear"
  /\ \E o \in Outcomes(TRUE) :
       LET columnCount == Len(collectAllFields(batch))
           c == Sent(Cur, o, <<Call("values.clear", "target", 1, columnCount)>>)
           d == IF o \in {"ok", "lost"}
                  THEN [c EXCEPT !.grid = ClearColumns(grid, columnCount)] ELSE c
       IN IF o = "ok" THEN Set([d EXCEPT !.pc = "full_update"])
          ELSE IF GivesUp(o) THEN Set(Throw(d))
          ELSE Set(Again(d))

\* replaceAllData, second request of an attempt: values.update at A1 with
\* USER_ENTERED; a failure that is retried starts the attempt over at the
\* clear.  Then formatDateColumns when there is a date column.
UpdateValues ==
  /\ pc[Self] = "full_update"
  /\ \E o \in Outcomes(TRUE) :
       LET allData == AllData(batch)
           c == Sent(Cur, o, <<Call("values.update", "target", 1, 1)>>)
           d == IF o \in {"ok", "lost"}
                  THEN [c EXCEPT !.grid = WriteBlock(grid, 1, 1, DisplayRows(allData)),
                                 !.rowCount = Max(rowCount, Len(allData))]
                  ELSE c
       IN IF o = "ok"
            THEN IF findDateColumnIndices(collectAllFields(batch)) # {}
                   THEN Set([d EXCEPT !.pc = "fmt_id", !.attempt = 0])
                   ELSE Set(ReturnStats(d))
          ELSE IF GivesUp(o) THEN Set(Throw(d))
          ELSE Set([Again(d) EXCEPT !.pc = "full_clear"])

\* getAllData and what performIncrementalUpdate does with the snapshot up
\* to its next await: an empty snapshot goes to performFullRefresh; a dry
\* run has no further await and returns its statistics; otherwise
\* deleteRows starts when there are rows to delete
GetAllData ==
  /\ pc[Self] = "incr_read"
  /\ \E o \in Outcomes(FALSE) :
       LET c == Sent(Cur, o, <<Call("get", "target", 0, 0),
                               Call("values.get", "target", 1, rowCount)>>)
           d == [c EXCEPT !.existingData = grid, !.attempt = 0]
           rowsToDelete == RowsToDelete(grid, batch)
       IN IF o # "ok"
            THEN IF GivesUp(o) THEN Set(Throw(c)) ELSE Set(Again(c))
          ELSE IF grid = <<>> THEN Set(EnterFullRefresh(d, batch))
          ELSE IF dryRun
            THEN Set(ReturnStats([d EXCEPT !.deletedCount = Len(rowsToDelete)]))
          ELSE IF rowsToDelete # <<>>
            THEN Set([d EXCEPT !.pc = "del_id",
                               !.ranges = sortedRanges(groupConsecutiveRanges(rowsToDelete))])
          ELSE Set([d EXCEPT !.pc = "merge"])

\* getSheetId: sheets.properties of the spreadsheet, the sheet found by its
\* title; when the request fails for good the id is 0, the id of whichever
\* sheet has it
GetSheetId ==
  /\ pc[Self] \in {"del_id", "grow_id", "fmt_id"}
  /\ \E o \in Outcomes(FALSE),
        z \in IF sheetZero = "unknown" THEN {"target", "other", "none"} ELSE {sheetZero} :
       LET c == Sent(Cur, o, <<Call("get", "spreadsheet", 0, 0)>>)
           next == CASE pc[Self] = "del_id" -> "del_issue"
                     [] pc[Self] = "grow_id" -> "grow"
                     [] OTHER -> "fmt"
       IN IF o = "ok"
            THEN Set([c EXCEPT !.pc = next, !.sheetRef = "target", !.attempt = 0])
          ELSE IF GivesUp(o)
            THEN Set([c EXCEPT !.pc = next, !.sheetRef = z, !.sheetZero = z, !.attempt = 0])
          ELSE Set(Again(c))

\* variant: the batchUpdate is not awaited, the loop goes on at once
DeleteIssue_notAwaited ==
  /\ pc[Self] = "del_issue"
  /\ LET range == Head(ranges)
         request == Call("deleteDimension", sheetRef, range.start - 1, range.end)
     IN Set([Cur EXCEPT !.pc = IF Len(ranges) > 1 THEN "del_issue" ELSE "merge",
                        !.ranges = Tail(@), !.delResults = Append(@, "ok"),
                        !.inflight = Append(@, request), !.calls = Append(@, request)])

\* deleteRows, one attempt for the first range left: the batchUpdate with
\* deleteDimension [range.start - 1, range.end) is sent
DeleteIssue ==
  /\ pc[Self] = "del_issue"
  /\ LET range == Head(ranges)
         request == Call("deleteDimension", sheetRef, range.start - 1, range.end)
     IN Set([Cur EXCEPT !.pc = "del_wait", !.inflight = Append(@, request),
                        !.calls = Append(@, request)])

\* deleteRows goes on after a range: the next range, or back in
\* performIncrementalUpdate with deletedCount = rowsToDelete.length
NextRange(c, result) ==
  [c EXCEPT !.ranges = Tail(@), !.delResults = Append(@, result), !.attempt = 0,
            !.pc = IF Len(c.ranges) > 1 THEN "del_issue" ELSE "merge",
            !.deletedCount = IF Len(c.ranges) > 1 THEN @
                             ELSE Len(RowsToDelete(c.existingData, c.batch))]

\* variant: the failure of a range is thrown on to performIncrementalUpdate
CatchDeleteFailure_rethrows(c) == Throw(c)

\* the catch block in the loop of deleteRows: the failure is logged and the
\* loop goes on
CatchDeleteFailure(c) == NextRange(c, "failed")

\* the answer to the deleteDimension in flight; the failure retryOperation
\* throws is caught in the loop, which continues with the next range
DeleteRespond ==
  /\ pc[Self] = "del_wait"
  /\ \E o \in Outcomes(TRUE) :
       LET request == Head(inflight)
           size == request.b - request.a
           accepted == CASE request.sheet = "target" ->
                              DeleteAccepted(rowCount, request.a, request.b)
                         [] request.sheet = "other" -> TRUE
                         [] OTHER -> FALSE
           applied == o \in {"ok", "lost"} /\ accepted
           result == IF o \in {"ok", "lost"} /\ ~accepted THEN "permanent" ELSE o
           c == [Cur EXCEPT !.inflight = Tail(@),
                            !.faults = @ + (IF o = "ok" THEN 0 ELSE 1)]
           d == IF applied /\ request.sheet = "target"
                  THEN [c EXCEPT !.grid = DeleteDimension(grid, request.a, request.b),
                                 !.rowCount = @ - size]
                ELSE IF applied THEN [c EXCEPT !.otherDeleted = @ + size]
                ELSE c
       IN IF result = "ok" THEN Set(NextRange(d, "ok"))
          ELSE IF GivesUp(result) THEN Set(CatchDeleteFailure(d))
          ELSE Set([Again(d) EXCEPT !.pc = "del_issue"])

\* performIncrementalUpdate after the deletions: finalColumns and
\* newColumns are computed; addColumns is called when there are new ones
MergeColumns ==
  /\ pc[Self] = "merge"
  /\ Set([Cur EXCEPT !.pc = IF NewColumns(existingData, batch) # <<>>
                              THEN "cols" ELSE "avail"])

\* addColumns(newColumns, existingHeaders.length): values.update, RAW, at
\* row 1 from the column after the last header read
AddColumns ==
  /\ pc[Self] = "cols"
  /\ \E o \in Outcomes(TRUE) :
       LET startColumn == Len(existingData[1])
           c == Sent(Cur, o, <<Call("values.update", "target", 1, startColumn + 1)>>)
           d == IF o \in {"ok", "lost"}
                  THEN [c EXCEPT !.grid = WriteBlock(grid, 1, startColumn + 1,
                                                    <<NewColumns(existingData, batch)>>)]
                  ELSE c
       IN IF o = "ok" THEN Set([d EXCEPT !.pc = "avail", !.attempt = 0])
          ELSE IF GivesUp(o) THEN Set(Throw(d))
          ELSE Set(Again(d))

\* variant: the failure of the lookup is thrown on
GetAvailableRows_failureThrows ==
  /\ pc[Self] = "avail"
  /\ \E o \in Outcomes(FALSE) :
       LET c == Sent(Cur, o, <<Call("get", "target", 0, 0)>>)
           requiredRows == RequiredRows(existingData, batch, deletedCount)
       IN IF o # "ok" /\ ~GivesUp(o) THEN Set(Again(c))
          ELSE IF o # "ok" THEN Set(Throw(c))
          ELSE Set([c EXCEPT !.attempt = 0,
                             !.pc = IF requiredRows > rowCount \/ rowCount = 0
                                      THEN "grow_id" ELSE "append"])

\* getAvailableRows (0 when the request fails for good) and the test
\* `requiredRows > availableRows || availableRows === 0`
GetAvailableRows ==
  /\ pc[Self] = "avail"
  /\ \E o \in Outcomes(FALSE) :
       LET c == Sent(Cur, o, <<Call("get", "target", 0, 0)>>)
           availableRows == IF o = "ok" THEN rowCount ELSE 0
           requiredRows == RequiredRows(existingData, batch, deletedCount)
       IN IF o # "ok" /\ ~GivesUp(o) THEN Set(Again(c))
          ELSE Set([c EXCEPT !.attempt = 0,
                             !.pc = IF requiredRows > availableRows \/ availableRows = 0
                                      THEN "grow_id" ELSE "append"])

\* addRowsToSheet(5000) after its getSheetId: batchUpdate with
\* appendDimension; a failure is logged and the run goes on
AppendDimension ==
  /\ pc[Self] = "grow"
  /\ \E o \in Outcomes(TRUE) :
       LET c == Sent(Cur, o, <<Call("appendDimension", sheetRef, GrowthRows, 0)>>)
           result == IF o \in {"ok", "lost"} /\ sheetRef = "none" THEN "permanent" ELSE o
           d == IF o \in {"ok", "lost"} /\ sheetRef = "target"
                  THEN [c EXCEPT !.rowCount = @ + GrowthRows] ELSE c
       IN IF result # "ok" /\ ~GivesUp(result) THEN Set(Again(d))
          ELSE Set([d EXCEPT !.pc = "append", !.attempt = 0])

\* appendRows(dataRows, 'USER_ENTERED'): values.append with INSERT_ROWS;
\* then formatDateColumns when finalColumns has a date column
AppendRows ==
  /\ pc[Self] = "append"
  /\ \E o \in Outcomes(TRUE) :
       LET finalColumns == FinalColumns(existingData, batch)
           dataRows == recordsToRows(batch, finalColumns)
           c == Sent(Cur, o, <<Call("values.append", "target", Len(dataRows), 0)>>)
           d == IF o \in {"ok", "lost"}
                  THEN [c EXCEPT !.grid = AppendValues(grid, DisplayRows(dataRows)),
                                 !.rowCount = @ + Len(dataRows)]
                  ELSE c
       IN IF o = "ok"
            THEN IF findDateColumnIndices(finalColumns) # {}
                   THEN Set([d EXCEPT !.pc = "fmt_id", !.attempt = 0])
                   ELSE Set(ReturnStats(d))
          ELSE IF GivesUp(o) THEN Set(Throw(d))
          ELSE Set(Again(d))

\* formatDateColumns after its getSheetId: batchUpdate with one repeatCell
\* per date column; a failure is logged and the statistics are returned
RepeatCell ==
  /\ pc[Self] = "fmt"
  /\ \E o \in Outcomes(TRUE) :
       LET c == Sent(Cur, o, <<Call("repeatCell", sheetRef, 0, 0)>>)
           result == IF o \in {"ok", "lost"} /\ sheetRef = "none" THEN "permanent" ELSE o
       IN IF result # "ok" /\ ~GivesUp(result) THEN Set(Again(c))
          ELSE Set(ReturnStats(c))

Init ==
  /\ MapperIdle
  /\ RetryIdle
  /\ pc = [p \in {Self} |-> "start"]
  /\ now = NowMs
  /\ lockFile \in InitialLocks
  /\ lockAge = [p \in {Self} |-> 0]
  /\ acquiredAt = [p \in {Self} |-> -1]
  /\ released = [p \in {Self} |-> FALSE]
  /\ outcome = [p \in {Self} |-> "none"]
  /\ dryRun \in BOOLEAN
  /\ fullRefresh \in BOOLEAN
  /\ grid \in InitialGrids
  /\ grid0 = grid
  /\ rowCount = Max(1, Len(grid))
  /\ sheetZero = "unknown" /\ otherDeleted = 0
  /\ batch = <<>> /\ existingData = <<>> /\ ranges = <<>> /\ sheetRef = "target"
  /\ inflight = <<>> /\ attempt = 0 /\ faults = 0 /\ delResults = <<>>
  /\ deletedCount = 0 /\ calls = <<>> /\ stats = NoStats

Next ==
  \/ Begin
  \/ LockAccess(Self)
  \/ LockStat(Self)
  \/ LockUnlink(Self)
  \/ LockWrite(Self)
  \/ LoadData
  \/ ClearValues
  \/ UpdateValues
  \/ GetAllData
  \/ GetSheetId
  \/ DeleteIssue
  \/ DeleteRespond
  \/ MergeColumns
  \/ AddColumns
  \/ GetAvailableRows
  \/ AppendDimension
  \/ AppendRows
  \/ RepeatCell
  \/ ReleaseLock(Self)

Spec == Init /\ [][Next]_vars

(***************************************************************************)
(* SpecTwice: writeData is called, and when a real incremental update has  *)
(* returned its statistics it is called once more on the same file, the    *)
(* store answering every request.                                          *)
(***************************************************************************)
\* a date-time of the year 50
YearFifty == <<"0","0","5","0","-","0","1","-","0","1","T","0","0",":","0","0">>

\* the files of records with a date in every record
DatedBatches ==
  {b \in Batches : \A k \in 1..Len(b) : normalizeDate(getRecordDate(b[k])) # <<>>} \cup
  { << <<[k |-> FieldDate, v |-> Text(YearFifty)], [k |-> FieldA, v |-> Text(<<"n">>)]>> >> }

\* the caller runs writeData(dataPath) again, ten minutes later, after a
\* real incremental update returned; grid0 is the store this call finds
SecondRun ==
  /\ pc[Self] = "done" /\ outcome[Self] = "stats"
  /\ ~dryRun /\ ~fullRefresh /\ existingData # <<>>
  /\ now = NowMs
  /\ now' = now + TickMs
  /\ pc' = [pc EXCEPT ![Self] = "start"]
  /\ outcome' = [outcome EXCEPT ![Self] = "none"]
  /\ lockAge' = [lockAge EXCEPT ![Self] = 0]
  /\ acquiredAt' = [acquiredAt EXCEPT ![Self] = -1]
  /\ released' = [released EXCEPT ![Self] = FALSE]
  /\ grid0' = grid
  /\ existingData' = <<>> /\ ranges' = <<>> /\ sheetRef' = "target" /\ attempt' = 0
  /\ delResults' = <<>> /\ deletedCount' = 0 /\ calls' = <<>> /\ stats' = NoStats
  /\ UNCHANGED <<mvars, rvars, lockFile, dryRun, fullRefresh, storevars, batch, inflight,
                 faults>>

InitTwice ==
  /\ MapperIdle
  /\ RetryIdle
  /\ pc = [p \in {Self} |-> "start"]
  /\ now = NowMs
  /\ lockFile \in InitialLocks
  /\ lockAge = [p \in {Self} |-> 0]
  /\ acquiredAt = [p \in {Self} |-> -1]
  /\ released = [p \in {Self} |-> FALSE]
  /\ outcome = [p \in {Self} |-> "none"]
  /\ dryRun = FALSE
  /\ fullRefresh = FALSE
  /\ grid \in InitialGrids
  /\ grid0 = grid
  /\ rowCount = Max(1, Len(grid))
  /\ sheetZero = "unknown" /\ otherDeleted = 0
  /\ batch \in DatedBatches /\ existingData = <<>> /\ ranges = <<>> /\ sheetRef = "target"
  /\ inflight = <<>> /\ attempt = 0 /\ faults = MaxFaults /\ delResults = <<>>
  /\ deletedCount = 0 /\ calls = <<>> /\ stats = NoStats

NextTwice == Next \/ SecondRun

SpecTwice == InitTwice /\ [][NextTwice]_vars

(***************************************************************************)
(* SpecMapper: one call of a RecordMapper method on arguments drawn from   *)
(* bounded sets.                                                           *)
(***************************************************************************)
MaxPosition == 4
MaxListLen == 3
ExampleNumbers == <<5, 6, 7, 10>>

\* the arrays of row numbers, repeated numbers included
NumberLists ==
  UNION {[1..n -> 1..MaxPosition] : n \in 0..MaxListLen} \cup {ExampleNumbers}

FieldC == <<"c">>
MaxColumns == 2

\* the arrays of column names, repeated names included
ColumnLists == UNION {[1..n -> {FieldA, FieldB, FieldC}] : n \in 0..MaxColumns}

\* the date texts: canonical shape (valid, beyond the month's end, no date
\* at all), the same with a time of day, month/day/year, with blanks
\* around, and texts that are no date
TextYears == {<<"2","0","2","4">>, <<"2","0","2","3">>, <<"0","5","0","0">>, <<"0","0","5","0">>}
TextMonths == {<<"0","1">>, <<"0","2">>, <<"1","2">>, <<"1","3">>}
TextDays == {<<"0","1">>, <<"2","9">>, <<"3","1">>, <<"4","0">>}
ShortMonths == {<<"1">>, <<"2">>, <<"1","2">>}
ShortDays == {<<"2">>, <<"2","9">>, <<"3","1">>}

CanonicalTexts ==
  {y \o <<"-">> \o m \o <<"-">> \o d : y \in TextYears, m \in TextMonths, d \in TextDays}

DateTexts ==
  CanonicalTexts
    \cup {x \o <<"T","0","0",":","0","0">> : x \in CanonicalTexts}
    \cup {m \o <<"/">> \o d \o <<"/">> \o y : m \in ShortMonths, d \in ShortDays, y \in TextYears}
    \cup {<<" ">> \o Day1 \o <<" ">>, <<" ">> \o Day2Slashed, <<>>, <<" ">>, <<"n","/","a">>}

\* the grids read: the header row, then up to MaxSheetRows rows of up to
\* two cells, a cell empty, blank, plain or with quote markers in front
MaxSheetRows == 2
CellTexts == {<<>>, <<" ">>, <<"x">>, <<"'", "x">>, <<"'", "'", "x">>}
SheetRows == UNION {[1..n -> CellTexts] : n \in 0..2}
SheetGrids == {<<HeaderRow>> \o rows : rows \in UNION {[1..n -> SheetRows] : n \in 0..MaxSheetRows}}

\* the configurations of the date fields and the column names asked about
FieldDay == <<"d","a","y">>
FieldWhen == <<"w","h","e","n">>
CustomDateFields ==
  {Absent, Present(<<FieldDate>>), Present(<<toUpperCase(FieldDate)>>),
   Present(<<FieldDay, <<"W","h","e","n">>>>), Present(<<>>)}
EnvDateFields ==
  {Absent, Present(FieldDate), Present(FieldDay \o <<",", " ">> \o FieldWhen),
   Present(toUpperCase(FieldWhen)), Present(<<>>)}
ColumnNames ==
  {FieldDate, <<"D","a","t","e">>, toUpperCase(FieldDay), FieldWhen, <<"W","h","e","n">>,
   FieldA, <<>>}

MapperCalls ==
  {[fun |-> "groupConsecutiveRanges", args |-> <<numbers>>] : numbers \in NumberLists}
    \cup
  {[fun |-> "isDateField", args |-> <<custom, env, name>>] :
     custom \in CustomDateFields, env \in EnvDateFields, name \in ColumnNames}
    \cup
  {[fun |-> "rowsToRecords", args |-> <<rows, rows[1]>>] : rows \in SheetGrids}
    \cup
  {[fun |-> "normalizeDate", args |-> <<dateString>>] : dateString \in DateTexts}
    \cup
  {[fun |-> "mergeColumns", args |-> <<existingColumns, newFields>>] :
     existingColumns \in ColumnLists, newFields \in ColumnLists}

MapperInit ==
  /\ mpc = "call"
  /\ \E call \in MapperCalls : mfun = call.fun /\ margs = call.args
  /\ mresult = <<>>

ApplyGroupConsecutiveRanges ==
  /\ mpc = "call" /\ mfun = "groupConsecutiveRanges"
  /\ mresult' = groupConsecutiveRanges(margs[1])
  /\ mpc' = "done"
  /\ UNCHANGED <<mfun, margs, rvars, lvars, wvars>>

ApplyMergeColumns ==
  /\ mpc = "call" /\ mfun = "mergeColumns"
  /\ mresult' = mergeColumns(margs[1], margs[2])
  /\ mpc' = "done"
  /\ UNCHANGED <<mfun, margs, rvars, lvars, wvars>>

ApplyNormalizeDate ==
  /\ mpc = "call" /\ mfun = "normalizeDate"
  /\ mresult' = normalizeDate(margs[1])
  /\ mpc' = "done"
  /\ UNCHANGED <<mfun, margs, rvars, lvars, wvars>>

ApplyRowsToRecords ==
  /\ mpc = "call" /\ mfun = "rowsToRecords"
  /\ mresult' = rowsToRecords(margs[1], margs[2])
  /\ mpc' = "done"
  /\ UNCHANGED <<mfun, margs, rvars, lvars, wvars>>

\* new RecordMapper(customDateFields) with DATE_FIELDS as given, then
\* isDateField(columnName)
ApplyIsDateField ==
  /\ mpc = "call" /\ mfun = "isDateField"
  /\ mresult' = isDateFieldOf(constructorDateFields(margs[1], margs[2]), margs[3])
  /\ mpc' = "done"
  /\ UNCHANGED <<mfun, margs, rvars, lvars, wvars>>

MapperNext ==
  \/ ApplyGroupConsecutiveRanges
  \/ ApplyIsDateField
  \/ ApplyRowsToRecords
  \/ ApplyNormalizeDate
  \/ ApplyMergeColumns

InitMapper == MapperInit /\ RetryIdle /\ LockIdle /\ WriterIdle

SpecMapper == InitMapper /\ [][MapperNext]_vars

(***************************************************************************)
(* Claims on the Retry Executor (SpecRetry)                                *)
(***************************************************************************)
\* C8: for every retry configuration, every attempt index and every value
\* of the jitter, the delay computed by calculateRetryDelay lies in
\* [baseDelay, maxDelay].
C8_DelayWithinBounds ==
  rdelay # -1 =>
    /\ rconfig.baseDelay * DelayScale <= rdelay
    /\ rdelay <= rconfig.maxDelay * DelayScale

\* what the claim counts as a transient marker of an error
CarriesNumericMarker(e) == InHttpCodes(e.code) \/ InHttpCodes(e.status)
CarriesTransportMarker(e) == InNetworkCodes(e.code)
CarriesVocabularyMarker(e) ==
  \E name \in retryableErrors : includes(toUpperCase(e.message), name)

\* C9: an error is classified retryable whenever it carries a transient
\* numeric status/code, a transport-level code, or a message containing a
\* name of the transient vocabulary, each of the three on its own whatever
\* the other fields hold.
C9_MarkerImpliesRetryable ==
  \A i \in 1..Len(rfails) :
    (CarriesNumericMarker(rfails[i]) \/ CarriesTransportMarker(rfails[i])
       \/ CarriesVocabularyMarker(rfails[i]))
      => shouldRetry(rfails[i])

\* C10: a failure classified non-retryable ends the call after that attempt
\* (it is the last attempt, no sleep and no invocation follows it), and a
\* failure classified retryable is surfaced only after maxRetries + 1
\* attempts have failed.
C10_PermanentImmediateTransientExhausted ==
  /\ \A i \in 1..Len(rfails) :
       ~shouldRetry(rfails[i]) =>
         /\ i = Len(rfails)
         /\ rpc = "thrown"
         /\ rops = i
         /\ rsleeps = i - 1
  /\ (rpc = "thrown" /\ shouldRetry(rfails[Len(rfails)])) =>
       /\ Len(rfails) = rconfig.maxRetries + 1
       /\ rops = rconfig.maxRetries + 1
  /\ rpc = "thrown" => Len(rfails) >= 1

\* a permanent error on the second attempt of a call that had retries left
C10_Witness ==
  /\ rpc = "thrown"
  /\ rconfig.maxRetries = 3
  /\ Len(rfails) = 2
  /\ shouldRetry(rfails[1])
  /\ ~shouldRetry(rfails[2])

\* a call that returned or threw makes no further attempt and no sleep
NoAttemptAfterTheEnd ==
  (rpc = "returned" \/ rpc = "thrown") => (rops' = rops /\ rsleeps' = rsleeps)

\* C11: retryOperation ends after at most maxRetries + 1 invocations of
\* the operation; a sleep precedes every attempt but the first, once each,
\* and none precedes the first; a successful attempt ends the call with
\* that attempt's result and no attempt follows it.
C11_BoundedAttemptsOneSleepEach ==
  /\ [](/\ rops <= rconfig.maxRetries + 1
        /\ rpc = "try" => rsleeps = rops
        /\ rpc \in {"sleep", "returned", "thrown"} => rsleeps = rops - 1
        /\ rpc = "returned" => rresult = rops /\ Len(rfails) = rops - 1
        /\ rpc # "returned" => rresult = 0)
  /\ [][NoAttemptAfterTheEnd]_vars
  /\ <>(rpc \in {"returned", "thrown"})

\* the third attempt of a call succeeded after two sleeps
C11_Witness ==
  /\ rpc = "returned" /\ rops = 3 /\ rsleeps = 2 /\ rresult = 3

\* C12: when retryOperation fails, the error that reaches the caller has
\* the error of the final attempt as its cause.
C12_ThrownErrorHasLastErrorAsCause ==
  rpc = "thrown" => rthrown.cause = rfails[Len(rfails)]

(***************************************************************************)
(* Claims on the Lock Manager (SpecLock)                                   *)
(***************************************************************************)
\* p is between its successful acquire and its release
HoldsLock(p) == acquiredAt[p] >= 0 /\ ~released[p]

\* the lock p wrote is not stale
LockIsFresh(p) == now - acquiredAt[p] <= StaleLockMs

\* C5: at most one invocation is between a successful acquire and its
\* release while its lock is younger than 30 minutes.
C5_AtMostOneFreshHolder ==
  Cardinality({p \in DOMAIN pc : HoldsLock(p) /\ LockIsFresh(p)}) <= 1

\* a step in which p's releaseLock meets the lock another invocation wrote
\* after evicting p's lock as stale leaves that lock in place
LateReleaseKeepsLaterLock ==
  \A p \in DOMAIN pc :
    (/\ pc[p] = "release" /\ pc'[p] = "done"
     /\ lockFile.exists /\ lockFile.pid # p
     /\ IsStale(lockFile.mtime - acquiredAt[p]))
      => lockFile' = lockFile

\* C31: release removes only the lock the releasing invocation acquired:
\* when a holder's lock was evicted as stale and written again by a later
\* invocation, the late release of the first holder leaves the later
\* invocation's lock in place.
C31_ReleaseRemovesOnlyOwnLock == [][LateReleaseKeepsLaterLock]_vars

(***************************************************************************)
(* Claims on the mapper's methods (SpecMapper)                             *)
(***************************************************************************)
\* C16: for any list of positions groupConsecutiveRanges returns ranges
\* with start <= end whose union is exactly the set of the positions given,
\* pairwise disjoint and in descending order (each range lies entirely
\* below the ranges before it); the empty list gives the empty list and
\* [5,6,7,10] gives [{10,10},{5,7}].
C16_RangesPartitionTheInputDescending ==
  (mpc = "done" /\ mfun = "groupConsecutiveRanges")
    => LET numbers == margs[1]
           result == mresult
       IN /\ UNION {result[i].start .. result[i].end : i \in 1..Len(result)} = Range(numbers)
          /\ \A i \in 1..Len(result) : result[i].start <= result[i].end
          /\ \A i, j \in 1..Len(result) : i < j => result[j].end < result[i].start
          /\ numbers = <<>> => result = <<>>
          /\ numbers = ExampleNumbers
               => result = <<[start |-> 10, end |-> 10], [start |-> 5, end |-> 7]>>

\* C17: mergeColumns(existing, incoming) returns existing, unchanged and
\* in place, followed by the incoming fields that existing lacks, each once
\* and in the order of their first occurrence in incoming; when existing
\* has no duplicates the result has none; mergeColumns([a,b],[b,c]) is
\* [a,b,c].
FirstAt(seq, x) == CHOOSE i \in 1..Len(seq) : seq[i] = x /\ \A j \in 1..(i - 1) : seq[j] # x
NoDuplicates(seq) == Cardinality(Range(seq)) = Len(seq)

C17_MergeKeepsExistingAppendsNewOnce ==
  (mpc = "done" /\ mfun = "mergeColumns")
    => LET existing == margs[1]
           incoming == margs[2]
           result == mresult
           added == SubSeq(result, Len(existing) + 1, Len(result))
       IN /\ Len(result) >= Len(existing)
          /\ SubSeq(result, 1, Len(existing)) = existing
          /\ Range(added) = Range(incoming) \ Range(existing)
          /\ NoDuplicates(added)
          /\ \A i, j \in 1..Len(added) :
               i < j => FirstAt(incoming, added[i]) < FirstAt(incoming, added[j])
          /\ NoDuplicates(existing) => NoDuplicates(result)
          /\ (existing = <<FieldA, FieldB>> /\ incoming = <<FieldB, FieldC>>)
               => result = <<FieldA, FieldB, FieldC>>

\* mergeColumns([a,b],[b,c]) has returned [a,b,c]
C17_Witness ==
  /\ mpc = "done" /\ mfun = "mergeColumns"
  /\ margs = <<<<FieldA, FieldB>>, <<FieldB, FieldC>>>>
  /\ mresult = <<FieldA, FieldB, FieldC>>

\* C21: normalizeDate is idempotent where it succeeds: a non-empty result
\* is its own normalization; a text of the shape YYYY-MM-DD that is a day
\* of the calendar is returned as it is; 2024-13-40 gives the empty text.
IsCalendarDay(text) ==
  /\ MatchesCanonical(text)
  /\ LET y == ToNumber(SubSeq(text, 1, 4))
         m == ToNumber(SubSeq(text, 6, 7))
         d == ToNumber(SubSeq(text, 9, 10))
     IN m \in 1..12 /\ d \in 1..DaysInMonth(y, m)

C21_NormalizeDateIdempotent ==
  (mpc = "done" /\ mfun = "normalizeDate")
    => LET x == margs[1]
           result == mresult
       IN /\ result # <<>> => normalizeDate(result) = result
          /\ IsCalendarDay(x) => result = x
          /\ x = <<"2","0","2","4","-","1","3","-","4","0">> => result = <<>>

\* C26: rowsToRecords leaves out the header row and every row all of
\* whose cells are empty or blanks; each row left is paired with its
\* position in the grid, counted from 1, blank rows counted too, so the
\* positions are distinct, ascending and at least 2; field c of a record
\* is named by header c and holds cell c of the row, the empty text when
\* the row has no such cell, less one quote marker in front.
OnlyBlanks(cell) == \A i \in 1..Len(cell) : cell[i] = " "
WithoutMarker(cell) == IF cell # <<>> /\ Head(cell) = "'" THEN Tail(cell) ELSE cell

C26_RecordsKeepGridPositions ==
  (mpc = "done" /\ mfun = "rowsToRecords")
    => LET rows == margs[1]
           headers == margs[2]
           result == mresult
           filled == {i \in 2..Len(rows) : \E c \in 1..Len(rows[i]) : ~OnlyBlanks(rows[i][c])}
       IN /\ {result[k].rowNumber : k \in 1..Len(result)} = filled
          /\ Len(result) = Cardinality(filled)
          /\ \A k \in 1..Len(result) : result[k].rowNumber >= 2
          /\ \A j, k \in 1..Len(result) : j < k => result[j].rowNumber < result[k].rowNumber
          /\ \A k \in 1..Len(result) :
               LET row == rows[result[k].rowNumber]
               IN /\ Len(result[k].data) = Len(headers)
                  /\ \A c \in 1..Len(headers) :
                       /\ result[k].data[c].k = headers[c]
                       /\ result[k].data[c].v =
                            Text(WithoutMarker(IF c <= Len(row) THEN row[c] ELSE <<>>))

\* the grid [header, [], ["'x"]]: one record, of position 3, with date "x"
\* and a "" for the missing cell
C26_Witness ==
  /\ mpc = "done" /\ mfun = "rowsToRecords"
  /\ margs[1] = <<HeaderRow, <<>>, << <<"'", "x">> >> >>
  /\ mresult = << [data |-> <<[k |-> FieldDate, v |-> Text(<<"x">>)],
                              [k |-> FieldA, v |-> Text(<<>>)]>>,
                   rowNumber |-> 3] >>

\* C27: isDateField tests membership in the configured date fields without
\* regard to letter case: whichever configuration is in force (the
\* constructor's argument, else DATE_FIELDS, else the default), the answer
\* for a column name is TRUE exactly when a configured name equals it once
\* both are put in lower case.
C27_DateFieldMembershipIgnoresCase ==
  (mpc = "done" /\ mfun = "isDateField")
    => LET configured == constructorDateFields(margs[1], margs[2])
           name == margs[3]
       IN mresult <=> (\E i \in 1..Len(configured) :
                         toLowerCase(configured[i]) = toLowerCase(name))

(***************************************************************************)
(* Claims on one invocation of writeData (Spec)                            *)
(***************************************************************************)
\* the deleteDimension requests sent so far, in order
DeleteCalls == SelectSeq(calls, LAMBDA call : call.op = "deleteDimension")

\* the partition set of the batch and the keyed stored rows of a snapshot
PartitionSet == extractDatesFromRecords(batch)
NonBlankPositions(data) ==
  {i \in 2..Len(data) : \E c \in 1..Len(data[i]) : ~BlankCell(data[i][c])}
StoredKey(data, i) ==
  LET record == [h \in 1..Len(data[1]) |-> [k |-> data[1][h], v |-> Text(ReadCell(data[i], h))]]
  IN normalizeDate(getRecordDate(record))
MarkedPositions(data) ==
  {i \in NonBlankPositions(data) : StoredKey(data, i) \in PartitionSet}

\* C1: the row deletions of an incremental update are sent one range per
\* request, never two at a time (a request, its retries included, is
\* answered before the next range is sent), and in strictly descending
\* order: a range sent later lies entirely below every range sent earlier.
C1_DeletesOneByOneDescending ==
  /\ Len(inflight) <= 1
  /\ LET sent == DeleteCalls
     IN sent # <<>> =>
          LET planned == groupConsecutiveRanges(RowsToDelete(existingData, batch))
              asSent == {[a |-> planned[k].start - 1, b |-> planned[k].end] :
                           k \in 1..Len(planned)}
          IN /\ \A i \in 1..Len(sent) : [a |-> sent[i].a, b |-> sent[i].b] \in asSent
             /\ \A i, j \in 1..Len(sent) :
                  i < j => \/ sent[j].a = sent[i].a /\ sent[j].b = sent[i].b
                           \/ sent[j].b <= sent[i].a

\* two different ranges were deleted, one of them with a retried request
C1_Witness ==
  /\ pc[Self] = "merge"
  /\ Len(delResults) = 2
  /\ Len(DeleteCalls) = 3

\* C2: when every delete call of an incremental update succeeded, the store
\* after the last deletion is the snapshot without exactly the marked rows
\* (the non-blank stored rows whose normalized date is in the batch's
\* partition set), the other rows in their order; each range [start, end]
\* was sent as [start - 1, end) and removed end - start + 1 rows.
C2_StoreIsSnapshotWithoutMarkedRows ==
  (pc[Self] = "merge" /\ delResults # <<>> /\ \A i \in 1..Len(delResults) : delResults[i] = "ok")
    => LET marked == MarkedPositions(existingData)
           keptAt == {i \in 1..Len(existingData) : i \notin marked}
           nth(k) == CHOOSE i \in keptAt : Cardinality({j \in keptAt : j <= i}) = k
           kept == [k \in 1..Cardinality(keptAt) |-> existingData[nth(k)]]
       IN /\ grid = Normalize(kept)
          /\ rowCount = Max(1, Len(grid0)) - Cardinality(marked)
          /\ otherDeleted = 0

\* C13: a request whose attempt took effect and was answered with a
\* transient error is retried without harm: when an incremental update
\* has returned, every deletion having been addressed to the target sheet
\* and having succeeded, the store holds the non-blank rows of the
\* snapshot less the marked ones plus the incoming ones, each once: no
\* other row was deleted and no row was appended twice.
C13_RetriedRequestActsOnce ==
  (/\ outcome[Self] = "stats" /\ ~dryRun /\ ~fullRefresh /\ existingData # <<>>
   /\ \A i \in 1..Len(DeleteCalls) : DeleteCalls[i].sheet = "target"
   /\ \A i \in 1..Len(delResults) : delResults[i] = "ok")
    => Cardinality(NonBlankPositions(grid)) =
         (Cardinality(NonBlankPositions(existingData))
            - Cardinality(MarkedPositions(existingData))) + Len(batch)


\* C14: a full refresh replaces the store's contents atomically: when it
\* has returned, the store holds exactly the header and the rows of the
\* batch and no cell of what it held before; when it has failed, the
\* store holds the complete old contents or the complete new ones.
NewContents == Normalize(DisplayRows(AllData(batch)))

C14_FullRefreshReplacesAtomically ==
  (fullRefresh /\ ~dryRun /\ batch # <<>>)
    => /\ outcome[Self] = "stats" => grid = NewContents
       /\ outcome[Self] = "error" => grid \in {grid0, NewContents}

\* C15: the column set never shrinks: when a run, full refresh or
\* incremental, has returned, every field name of the header row the store
\* had before the run is still in the header row, also when the batch has
\* no such field.
C15_ColumnSetNeverShrinks ==
  (outcome[Self] = "stats" /\ ~dryRun /\ grid0 # <<>>)
    => /\ grid # <<>>
       /\ \A f \in Range(grid0[1]) : f \in Range(grid[1])

\* C18: an incremental update that finds the store empty goes the way of a
\* full refresh: no deletion, no header extension, no capacity request and
\* no append is ever sent (every sheet lookup is the one of getAllData);
\* when it has returned the store holds the header and the rows of the
\* batch, written at A1, and newRecords = totalRecords = the batch size,
\* deletedRecords = 0.
CallsOf(op) == SelectSeq(calls, LAMBDA call : call.op = op)

C18_EmptyStoreFallsBackToFullRefresh ==
  (~fullRefresh /\ grid0 = <<>> /\ batch # <<>>)
    => /\ \A i \in 1..Len(calls) :
            /\ calls[i].op \notin {"deleteDimension", "appendDimension", "values.append"}
            /\ calls[i].op = "values.update" => calls[i].a = 1 /\ calls[i].b = 1
            /\ (calls[i].op = "get" /\ calls[i].sheet = "target")
                 => i < Len(calls) /\ calls[i + 1].op = "values.get"
       /\ outcome[Self] = "stats"
            => /\ stats.newRecords = Len(batch) /\ stats.totalRecords = Len(batch)
               /\ stats.deletedRecords = 0
               /\ ~dryRun => grid = NewContents /\ CallsOf("values.update") # <<>>

\* a real incremental run of two records returned from an empty store
C18_Witness ==
  /\ ~fullRefresh /\ ~dryRun /\ grid0 = <<>> /\ outcome[Self] = "stats"
  /\ Len(batch) = 2 /\ stats.totalRecords = 2 /\ grid = NewContents

\* C19: a range whose deletion fails for good does not stop the run:
\* deleteRows goes on with the ranges left, which are always the rest of
\* the planned ranges in their descending order, each range processed
\* having been sent; the answer to a deletion never ends the run; and a
\* real incremental update that returns has sent the append and left the
\* incoming rows as the last rows of the store.
PlannedRanges == sortedRanges(groupConsecutiveRanges(RowsToDelete(existingData, batch)))

DeletionNeverEndsTheRun ==
  pc[Self] = "del_wait" => (pc'[Self] \in {"del_issue", "merge"} /\ outcome'[Self] = "none")

C19_FailedRangeIsSkippedRunGoesOn ==
  /\ []((~dryRun /\ ~fullRefresh /\ existingData # <<>>)
          => /\ (delResults # <<>> \/ ranges # <<>>)
                  => LET planned == PlannedRanges
                         done == Len(delResults)
                     IN /\ done <= Len(planned)
                        /\ ranges = SubSeq(planned, done + 1, Len(planned))
                        /\ \A k \in 1..done :
                             \E i \in 1..Len(calls) :
                               /\ calls[i].op = "deleteDimension"
                               /\ calls[i].a = planned[k].start - 1
                               /\ calls[i].b = planned[k].end
                        /\ pc[Self] \notin {"del_id", "del_issue", "del_wait"}
                             => done = Len(planned)
             /\ outcome[Self] = "stats"
                  => LET dataRows == DisplayRows(recordsToRows(batch,
                                                  FinalColumns(existingData, batch)))
                     IN /\ CallsOf("values.append") # <<>>
                        /\ Len(grid) >= Len(dataRows)
                        /\ SubSeq(grid, Len(grid) - Len(dataRows) + 1, Len(grid))
                             = Normalize(dataRows))
  /\ [][DeletionNeverEndsTheRun]_vars

\* the first of two ranges failed, the second was deleted, the run returned
C19_Witness ==
  /\ delResults = <<"failed", "ok">>
  /\ outcome[Self] = "stats"
  /\ CallsOf("values.append") # <<>>

\* C20: when no record of a non-empty batch has a date that resolves, an
\* incremental update of a non-empty store is append-only: no deletion is
\* ever sent, the run does not fail unless a request fails, and when it
\* has returned it reports deletedRecords = 0 and the batch size as
\* newRecords; a real run has left every stored row in place and the
\* incoming rows, all of them, as the last rows of the store.
NoResolvableDate ==
  /\ batch # <<>>
  /\ \A i \in 1..Len(batch) : normalizeDate(getRecordDate(batch[i])) = <<>>

C20_NoDateMeansAppendOnly ==
  (~fullRefresh /\ existingData # <<>> /\ NoResolvableDate)
    => /\ DeleteCalls = <<>>
       /\ faults = 0 => outcome[Self] # "error"
       /\ outcome[Self] = "stats"
            => /\ stats.deletedRecords = 0
               /\ stats.newRecords = Len(batch)
               /\ ~dryRun =>
                    LET dataRows == DisplayRows(recordsToRows(batch,
                                                 FinalColumns(existingData, batch)))
                    IN /\ Len(grid) >= Len(existingData) + Len(dataRows)
                       /\ \A i \in 2..Len(existingData) : grid[i] = existingData[i]
                       /\ SubSeq(grid, Len(grid) - Len(dataRows) + 1, Len(grid))
                            = Normalize(dataRows)

\* a real incremental run with a dateless record returned, two rows stored
C20_Witness ==
  /\ ~fullRefresh /\ ~dryRun /\ NoResolvableDate /\ outcome[Self] = "stats"
  /\ Len(existingData) = 3 /\ existingData[2] # <<>>
  /\ stats.deletedRecords = 0 /\ Len(grid) = 4

\* C22: in a real incremental update the capacity required is (stored data
\* rows - deleted count) + incoming records + 1; addRowsToSheet is entered
\* exactly when that exceeds the row count reported or the row count
\* reported is 0 (as it is when the lookup failed); the growth is one call,
\* its requests ask for 5000 rows and precede every append; when no request
\* has failed the sheet then has its rows less the deleted ones plus 5000.
GrowthCalls == CallsOf("appendDimension")

CapacityDecision ==
  (pc[Self] = "avail" /\ pc'[Self] # "avail")
    => LET reported == IF faults' = faults THEN rowCount ELSE 0
           required == (Cardinality(NonBlankPositions(existingData)) - deletedCount)
                         + Len(batch) + 1
       IN /\ pc'[Self] \in {"grow_id", "append"}
          /\ pc'[Self] = "grow_id" <=> (required > reported \/ reported = 0)

GrowthIsOneCallBeforeTheAppend ==
  /\ \A i \in 1..Len(calls) :
       (calls[i].op = "appendDimension")
         => (/\ calls[i].a = GrowthRows
             /\ \A j \in 1..(i - 1) :
                  /\ calls[j].op # "values.append"
                  /\ (calls[j].op = "appendDimension")
                       => (calls[j + 1].op = "appendDimension"))
  /\ Len(GrowthCalls) <= DEFAULT_RETRY_CONFIG.maxRetries + 1
  /\ (pc[Self] = "append" /\ faults = 0)
       => (rowCount = (Max(1, Len(grid0)) - Cardinality(MarkedPositions(existingData)))
                        + (IF GrowthCalls # <<>> THEN GrowthRows ELSE 0))

C22_GrowsByFixedIncrementWhenShort ==
  /\ []GrowthIsOneCallBeforeTheAppend
  /\ [][CapacityDecision]_vars

\* the sheet was grown once and the rows were appended; and a run that
\* found room enough is C22_WitnessNoGrowth
C22_Witness ==
  /\ outcome[Self] = "stats" /\ faults = 0 /\ Len(GrowthCalls) = 1
  /\ CallsOf("values.append") # <<>> /\ rowCount > GrowthRows

C22_WitnessNoGrowth ==
  /\ outcome[Self] = "stats" /\ faults = 0 /\ GrowthCalls = <<>>
  /\ CallsOf("values.append") # <<>>

\* C23: a real incremental invocation goes through its steps in one order:
\* snapshot read, row deletions, header extension, capacity lookup and
\* growth, row append, date format.  The requests logged never step back
\* in that order; an append is sent only when every planned range has been
\* answered; at most one request is in flight and none is sent while one
\* is.
StepOf(i) ==
  LET op == calls[i].op
  IN CASE op = "values.get" -> 1
       [] op = "get" /\ calls[i].sheet = "target" ->
            IF i < Len(calls) /\ calls[i + 1].op = "values.get" THEN 1 ELSE 4
       [] op = "deleteDimension" -> 2
       [] op = "values.update" -> 3
       [] op = "appendDimension" -> 4
       [] op = "values.append" -> 5
       [] op = "repeatCell" -> 6
       [] OTHER -> 0

\* the lookups of the sheet id belong to the deletion, the growth or the format
StepsInOrder ==
  \A i, j \in 1..Len(calls) :
    (i < j /\ StepOf(i) # 0 /\ StepOf(j) # 0) => StepOf(i) <= StepOf(j)

NothingSentWhileInFlight == inflight # <<>> => calls' = calls

C23_StepsInFixedOrder ==
  /\ []((~fullRefresh /\ grid0 # <<>>)
          => /\ StepsInOrder
             /\ Len(inflight) <= 1
             /\ CallsOf("values.append") # <<>> => (ranges = <<>> /\ inflight = <<>>))
  /\ [][NothingSentWhileInFlight]_vars

\* a run that deleted, extended the header, grew the sheet, appended and
\* formatted
C23_Witness ==
  /\ ~fullRefresh /\ grid0 # <<>> /\ outcome[Self] = "stats"
  /\ \A s \in 1..6 : \E i \in 1..Len(calls) : StepOf(i) = s

\* the header and the appended rows of a real incremental update, in any
\* state of the run
HeaderExtendedRowsLineUp ==
  (~fullRefresh /\ ~dryRun /\ existingData # <<>>)
    => LET old == existingData[1]
           final == mergeColumns(old, collectAllFields(batch))
           added == NewColumns(existingData, batch)
       IN /\ old \o added = final
          /\ \A i \in 1..Len(added) : added[i] \notin Range(old)
          /\ \A i \in 1..Len(calls) :
               calls[i].op = "values.update"
                 => (added # <<>> /\ calls[i].a = 1 /\ calls[i].b = Len(old) + 1)
          /\ grid # <<>> /\ \A c \in 1..Len(old) : CellAt(grid, 1, c) = old[c]
          /\ outcome[Self] = "stats"
               => /\ grid[1] = final
                  /\ \A k \in 1..Len(batch), c \in 1..Len(final) :
                       CellAt(grid, Len(grid) - Len(batch) + k, c)
                         = Display(processFieldValue(Get(batch[k], grid[1][c]), grid[1][c]))

\* C24: in a real incremental update the new columns are the final
\* columns that the stored header lacks, in order; they are written to row
\* 1 from the column after the last stored header cell; the stored header
\* cells stay as they are; when the run has returned, the header row is
\* the final columns and cell c of every appended row is the value of the
\* field named by header cell c.
C24_NewColumnsExtendHeaderRowsLineUp == []HeaderExtendedRowsLineUp

\* the record with the new field b was appended under the header date, a, b
C24_Witness ==
  /\ ~fullRefresh /\ ~dryRun /\ outcome[Self] = "stats"
  /\ existingData # <<>> /\ Len(existingData) >= 2
  /\ grid[1] = <<FieldDate, FieldA, FieldB>>
  /\ grid[Len(grid)] = <<Day2, <<"7">>, <<"m">>>>

\* C25: a failure of the row-count lookup, of the growth of the sheet or of
\* the date format request (the lookup of the sheet id included) never
\* fails the invocation: none of these steps ends with an error; after
\* the lookup and the growth the run goes on to the append; the format
\* steps leave the store as it is and end with the statistics; a lookup of
\* the row count that failed leads to the growth request.
AdvisorySteps == {"avail", "grow_id", "grow", "fmt_id", "fmt"}

AdvisoryFailureGoesOn ==
  (pc[Self] \in AdvisorySteps)
    => /\ outcome'[Self] # "error"
       /\ pc'[Self] \in AdvisorySteps \cup {"append", "release", "done"}
       /\ (pc'[Self] \in {"release", "done"})
            => (pc[Self] = "fmt" /\ outcome'[Self] = "stats" /\ stats' # NoStats)
       /\ (pc[Self] \in {"fmt_id", "fmt"}) => grid' = grid
       /\ (pc[Self] = "avail" /\ pc'[Self] # "avail" /\ faults' > faults)
            => pc'[Self] = "grow_id"

C25_AdvisoryFailuresNeverFailTheRun == [][AdvisoryFailureGoesOn]_vars

\* the lookup of the row count failed: the sheet had room and was grown all
\* the same, the rows were appended and the statistics returned
C25_Witness ==
  /\ ~fullRefresh /\ outcome[Self] = "stats" /\ faults = 1 /\ Len(GrowthCalls) = 1
  /\ CallsOf("values.append") # <<>>
  /\ (Cardinality(NonBlankPositions(existingData)) - deletedCount) + Len(batch) + 1
       <= rowCount - GrowthRows - Len(batch)

\* C28: when a real incremental update has returned its statistics, no
\* row of the snapshot whose partition key is in the batch's partition set
\* is left in the store: the rows of those partitions are incoming rows.
\* (The stored rows of the model differ from every incoming row in column
\* a, so a row left over is known by its cells.)
StaleRows == {existingData[i] : i \in MarkedPositions(existingData)}

C28_NoStaleRowAfterSuccess ==
  (outcome[Self] = "stats" /\ ~dryRun /\ ~fullRefresh /\ existingData # <<>>)
    => \A i \in 2..Len(grid) : grid[i] \notin StaleRows

\* C29: when a real incremental update has returned its statistics,
\* deletedRecords is the number of rows that were removed from the store
\* and totalRecords is the number of non-blank data rows the store holds.
\* (A snapshot row still stored is known by its cells, as for C28.)
SnapshotRowsLeft ==
  LET snapshotRows == {existingData[j] : j \in NonBlankPositions(existingData)}
  IN Cardinality({i \in NonBlankPositions(grid) : grid[i] \in snapshotRows})

C29_StatisticsMatchTheStore ==
  (outcome[Self] = "stats" /\ ~dryRun /\ ~fullRefresh /\ existingData # <<>>)
    => /\ stats.deletedRecords =
            Cardinality(NonBlankPositions(existingData)) - SnapshotRowsLeft
       /\ stats.totalRecords = Cardinality(NonBlankPositions(grid))

\* C30: an incremental update never deletes the header row and never
\* deletes a stored row whose date field is empty or cannot be normalized:
\* no deleteDimension request starts at index 0, the header read stays the
\* beginning of row 1, and every such row of the snapshot is still stored.
UndatedPositions(data) == {i \in NonBlankPositions(data) : StoredKey(data, i) = <<>>}

UndatedRowsLeft ==
  LET undatedRows == {existingData[j] : j \in UndatedPositions(existingData)}
  IN Cardinality({i \in 2..Len(grid) : grid[i] \in undatedRows})

C30_HeaderAndUndatedRowsKept ==
  (~dryRun /\ ~fullRefresh /\ existingData # <<>>)
    => /\ \A k \in 1..Len(DeleteCalls) : DeleteCalls[k].a >= 1
       /\ grid # <<>>
       /\ Len(grid[1]) >= Len(existingData[1])
       /\ SubSeq(grid[1], 1, Len(existingData[1])) = existingData[1]
       /\ UndatedRowsLeft >= Cardinality(UndatedPositions(existingData))

\* C32: every row deletion of deleteRows takes effect on the configured
\* sheet only: also when the lookup of the sheet's id failed, no row of
\* another sheet of the spreadsheet is deleted.
C32_DeletionsStayOnTheTargetSheet == otherDeleted = 0

\* C33: an incremental update is idempotent for a batch in which every
\* record has a resolvable date: when the second of two runs in a row with
\* the same batch has returned, every request answered, the store has the
\* header and the data rows the first run left, and the second run reports
\* deletedRecords = the number of records of the batch.
C33_SecondRunChangesNothing ==
  (/\ now > NowMs /\ outcome[Self] = "stats"
   /\ \A k \in 1..Len(batch) : normalizeDate(getRecordDate(batch[k])) # <<>>)
    => /\ grid = grid0
       /\ stats.deletedRecords = Len(batch)

\* C34: an invocation whose loaded batch is empty fails with an error in
\* both modes: no request is sent to the store, the store stays as it was,
\* no statistics are returned, and a run that is not a dry run has
\* released the lock it acquired when it ends.
C34_EmptyBatchFailsWithoutTouchingTheStore ==
  /\ batch = <<>>
       => (calls = <<>> /\ inflight = <<>> /\ grid = grid0 /\ stats = NoStats)
  /\ (batch = <<>> /\ pc[Self] \in {"release", "done"} /\ outcome[Self] # "contention")
       => outcome[Self] = "error"
  /\ (batch = <<>> /\ pc[Self] = "done" /\ outcome[Self] = "error" /\ ~dryRun)
       => (released[Self] /\ ~lockFile.exists)

\* a real run on a store with data loaded no record: it ended with the
\* error, the lock released
C34_Witness ==
  /\ batch = <<>> /\ pc[Self] = "done" /\ outcome[Self] = "error"
  /\ ~dryRun /\ released[Self] /\ Len(grid0) >= 2

\* the same in a dry run, which takes no lock
C34_WitnessDryRun ==
  /\ batch = <<>> /\ pc[Self] = "done" /\ outcome[Self] = "error"
  /\ dryRun /\ ~released[Self] /\ Len(grid0) >= 2

\* C3: an incremental update of a non-empty store returns deletedRecords =
\* the number of stored rows whose partition key is in the batch's
\* partition set, newRecords = the number of incoming records,
\* updatedRecords = 0, totalRecords = (non-blank stored data rows -
\* deletedRecords) + newRecords, and newColumns = the batch's fields that
\* the stored header lacks.
C3_IncrementalStatistics ==
  (stats # NoStats /\ ~fullRefresh /\ existingData # <<>>)
    => /\ stats.deletedRecords = Cardinality(MarkedPositions(existingData))
       /\ stats.newRecords = Len(batch)
       /\ stats.updatedRecords = 0
       /\ stats.totalRecords =
            (Cardinality(NonBlankPositions(existingData)) - stats.deletedRecords) + Len(batch)
       /\ stats.newColumns =
            SelectSeq(collectAllFields(batch), LAMBDA f : f \notin Range(existingData[1]))

\* two stored rows of 2024-01-01 and one incoming record of that date:
\* a real run returned deletedRecords 2, newRecords 1, updatedRecords 0
C3_Witness ==
  /\ ~dryRun /\ ~fullRefresh /\ outcome[Self] = "stats"
  /\ Len(batch) = 1 /\ PartitionSet = {Day1}
  /\ stats.deletedRecords = 2 /\ stats.newRecords = 1 /\ stats.updatedRecords = 0

\* the statistics of a run as a function of the mode, the snapshot and the batch
ProjectedStats(full, data, records) ==
  IF full \/ data = <<>> THEN FullRefreshStats(records)
  ELSE IncrementalStats(data, records, Len(RowsToDelete(data, records)))

\* C4: a dry run sends no request that changes the spreadsheet and never
\* creates, evicts or removes the lock file (no step of it changes the
\* file), in full-refresh mode, in incremental mode and on the empty-store
\* fallback; the statistics any run returns are the same function of the
\* mode, the snapshot and the batch, so a dry run returns what a real run
\* on the same snapshot and batch returns.
C4_DryRunReadOnlySameStatistics ==
  /\ [](/\ dryRun =>
             /\ \A i \in 1..Len(calls) : calls[i].op \notin MutatingOps
             /\ grid = grid0
             /\ acquiredAt[Self] = -1 /\ ~released[Self]
        /\ stats # NoStats => stats = ProjectedStats(fullRefresh, existingData, batch))
  /\ [][dryRun => lockFile' = lockFile]_vars

\* a dry run of an incremental update with rows to delete and another
\* process's lock in place has returned its statistics
C4_Witness ==
  /\ dryRun /\ ~fullRefresh /\ pc[Self] = "done" /\ outcome[Self] = "stats"
  /\ stats.deletedRecords > 0
  /\ lockFile.exists

\* C6: in a run that is not a dry run, once the lock was acquired the
\* release has been attempted when writeData is over, whether the try block
\* returned statistics or threw (load failure, empty batch, store failure).
C6_ReleaseOnEveryExit ==
  /\ (pc[Self] = "done" /\ acquiredAt[Self] >= 0) => released[Self]
  /\ (~dryRun /\ outcome[Self] \in {"stats", "error"}) => pc[Self] \in {"release", "done"}

\* a store request failed for good and the lock was released before the end
C6_Witness ==
  /\ pc[Self] = "done" /\ outcome[Self] = "error" /\ released[Self]
  /\ calls # <<>>

\* C7: acquire with a lock file in place: a lock older than 30 minutes is
\* discarded and the acquisition succeeds with a new lock; otherwise the
\* run ends with the contention error, the lock file as it was and no
\* request sent to the store.
C7_StaleEvictedElseContention ==
  /\ (~dryRun /\ lockFile.exists /\ lockFile.pid # Self) =>
       IF now - lockFile.mtime > StaleLockMs
         THEN pc[Self] \in {"start", "acquire", "lock_stat", "lock_unlink"}
         ELSE /\ pc[Self] \in {"start", "acquire", "lock_stat", "done"}
              /\ pc[Self] = "done" => outcome[Self] = "contention"
  /\ (~dryRun /\ pc[Self] = "load") =>
       /\ lockFile = [exists |-> TRUE, mtime |-> now, pid |-> Self]
       /\ acquiredAt[Self] = now
  /\ outcome[Self] = "contention" =>
       /\ pc[Self] = "done"
       /\ lockFile \in InitialLocks /\ lockFile.exists
       /\ now - lockFile.mtime <= StaleLockMs
       /\ calls = <<>>
       /\ acquiredAt[Self] = -1 /\ ~released[Self]

\* a lock 40 minutes old was found and discarded; the new lock is written next
C7_Witness ==
  /\ pc[Self] = "lock_write"
  /\ lockAge[Self] = 4 * TickMs
  /\ lockFile = NoLockFile

====
